---- MODULE Spec2Model ----
(***************************************************************************)
(* The CQRS message dispatch engine of codemucker-js-libs: the handler     *)
(* registry (ApiHandlerRegistry), the request contexts and their factory   *)
(* (DefaultContextFactory, NestableApi) and the dispatch pipeline          *)
(* (MessageHandlerInvoker.invokeHandlerFor).                               *)
(*                                                                         *)
(* JavaScript objects are heap entries: a context is an index into ctxts,  *)
(* a data bag an index into bags, a message carries its object number.     *)
(* An async function runs from one await to the next in one action.        *)
(***************************************************************************)
EXTENDS Integers, Sequences, FiniteSets, TLC

VARIABLES
    handlersByMessageName,  \* ApiHandlerRegistry.handlersByMessageName: own properties
    noHandlerHandler,       \* ApiHandlerRegistry._noHandlerHandler
    preHandlers,            \* ApiHandlerRegistry.preHandlers
    postHandler,            \* ApiHandlerRegistry.postHandler ("undefined" when unset)
    lastRegistered,         \* history: name -> handler of the last register call
    looked,                 \* the last registry query and what it returned
    ctxts,                  \* heap of MessageRequestContext objects
    bags,                   \* heap of ctxt.data objects: the keys written so far
    frames,                 \* the invokeHandlerFor activations, in creation order
    nObjs,                  \* message objects allocated so far
    rng,                    \* the uuids the random generator will hand out
    shim,                   \* the ContextFactoryShim the invoker holds
    nUuid,                  \* uuids handed out so far
    emitterListeners,       \* EventEmitter2: the listeners of the event, per emitter
    subscriptions,          \* the EventSubscription objects, in creation order
    vueHooks,               \* the 'hook:beforeDestroy' callbacks of each vue component
    lastEmit,               \* the last EventDef.emit and the listeners it invoked
    defaultEmitterFactory,  \* forms.ts defaultEmitterFactory
    forms,                  \* the PropertiesForm objects, in creation order
    formProperties,         \* the FormProperty objects, in creation order
    storage,                \* the StorageProvider: key -> value
    formCall,               \* the last call on a form or property and what it emitted
    linkMany,               \* a LinkMany: the value of each Link
    isLoadedReturned,       \* what the last LinkMany.isLoaded() returned
    loggers,                \* the LoggerImpl objects: _level and parent
    asked,                  \* the last question put to a logger and its answer
    traced                  \* what the invoker handed to its trace and debug log

eventVars == <<emitterListeners, subscriptions, vueHooks, lastEmit>>

formVars == <<defaultEmitterFactory, forms, formProperties, storage, formCall>>

linkVars == <<linkMany, isLoadedReturned>>

loggerVars == <<loggers, asked, traced>>

vars == <<handlersByMessageName, noHandlerHandler, preHandlers, postHandler,
          lastRegistered, looked, ctxts, bags, frames, nObjs, rng, shim, nUuid,
          eventVars, formVars, linkVars, loggerVars>>

registryVars == <<handlersByMessageName, noHandlerHandler, preHandlers, postHandler,
                  lastRegistered>>

heapVars == <<ctxts, bags, frames, nObjs, nUuid>>

-----------------------------------------------------------------------------
(* Bounds *)

\* invokeHandlerFor activations in one run (the top-level one and the nested ones)
MaxFrames == 2
\* pre-handlers registered
MaxPre == 2
\* message names holding a registered handler
MaxRegistered == 2

-----------------------------------------------------------------------------
(* JavaScript values.  Every value is a record of one shape:                *)
(*   t    the kind of value                                                 *)
(*   n    messageName of a message, key of an error, producer of a response *)
(*   id   object number of a message (identity, compared by ===)            *)
(*   data extendedInfo.registeredHandlers of an error                       *)

Names == {"A", "B", "constructor", "__proto__"}

Undefined == [t |-> "undefined", n |-> "", id |-> 0, data |-> {}]

Null == [t |-> "null", n |-> "", id |-> 0, data |-> {}]

\* a truthy object without a messageName
PlainValue == [t |-> "object", n |-> "", id |-> 0, data |-> {}]

Message(name, oid) == [t |-> "message", n |-> name, id |-> oid, data |-> {}]

\* what the user function `who` resolves to
Response(who) == [t |-> "response", n |-> who, id |-> 0, data |-> {}]

\* what the user function `who` throws or rejects with
Failure(who) == [t |-> "error", n |-> who, id |-> 0, data |-> {}]

\* the TypeError of reading a property of undefined or null
TypeError == [t |-> "error", n |-> "TypeError", id |-> 0, data |-> {}]

Truthy(v) == v.t \notin {"undefined", "null"}

IsPromise(v) == v.t = "promise"

HasMessageName(v) == v.t = "message" /\ v.n # ""

\* What a call of a user function hands back: a value, a synchronous throw,
\* or a promise that resolves or rejects.
Raw(kind, v) == [kind |-> kind, v |-> v]

\* `await raw`: a promise is unwrapped, any other value is the value itself
AwaitThrows(raw) == raw.kind \in {"throw", "reject"}

AwaitValue(raw) == raw.v

\* what `await raw` gave, as history
Awaited(raw) == [thrown |-> AwaitThrows(raw), v |-> AwaitValue(raw)]

\* nothing awaited yet
NotAwaited == [thrown |-> FALSE, v |-> [t |-> "unset", n |-> "", id |-> 0, data |-> {}]]

-----------------------------------------------------------------------------
(* lang.ts hashCode and cqrs newId.  A 32-bit integer is the pair           *)
(* <<hi, lo>> of the 16-bit halves of its two's complement pattern.         *)

\* version-4 uuids (as char codes) the generator can produce, all different;
\* the first two have hashCode -346848153 and 346848153
UuidPool ==
    <<
      \* "2bf1717d-be67-46dc-8c7f-e8ace5ead5b2"  hashCode -346848153
      <<50, 98, 102, 49, 55, 49, 55, 100, 45, 98, 101, 54, 55, 45, 52, 54, 100, 99, 45, 56, 99, 55, 102, 45, 101, 56, 97, 99, 101, 53, 101, 97, 100, 53, 98, 50>>,
      \* "01cc71d8-0e19-47a4-b1a9-f62c44a0b70c"  hashCode 346848153
      <<48, 49, 99, 99, 55, 49, 100, 56, 45, 48, 101, 49, 57, 45, 52, 55, 97, 52, 45, 98, 49, 97, 57, 45, 102, 54, 50, 99, 52, 52, 97, 48, 98, 55, 48, 99>>,
      \* "db5b5fab-8f4d-4e27-9da1-494c73cf256d"  hashCode -388374690
      <<100, 98, 53, 98, 53, 102, 97, 98, 45, 56, 102, 52, 100, 45, 52, 101, 50, 55, 45, 57, 100, 97, 49, 45, 52, 57, 52, 99, 55, 51, 99, 102, 50, 53, 54, 100>>,
      \* "73ab4876-7734-47c1-87fd-e805ec99108d"  hashCode 141597460
      <<55, 51, 97, 98, 52, 56, 55, 54, 45, 55, 55, 51, 52, 45, 52, 55, 99, 49, 45, 56, 55, 102, 100, 45, 101, 56, 48, 53, 101, 99, 57, 57, 49, 48, 56, 100>>,
      \* "309d6b79-965e-4a32-9ae4-45508201e2bd"  hashCode 1731854564
      <<51, 48, 57, 100, 54, 98, 55, 57, 45, 57, 54, 53, 101, 45, 52, 97, 51, 50, 45, 57, 97, 101, 52, 45, 52, 53, 53, 48, 56, 50, 48, 49, 101, 50, 98, 100>>,
      \* "79cb9e86-830c-41c2-8dcc-69292f45e678"  hashCode -1370208434
      <<55, 57, 99, 98, 57, 101, 56, 54, 45, 56, 51, 48, 99, 45, 52, 49, 99, 50, 45, 56, 100, 99, 99, 45, 54, 57, 50, 57, 50, 102, 52, 53, 101, 54, 55, 56>>,
      \* "2fa91425-cb00-4853-9d2c-67eda13ffe79"  hashCode 1537164541
      <<50, 102, 97, 57, 49, 52, 50, 53, 45, 99, 98, 48, 48, 45, 52, 56, 53, 51, 45, 57, 100, 50, 99, 45, 54, 55, 101, 100, 97, 49, 51, 102, 102, 101, 55, 57>>,
      \* "244caf9c-4dab-4481-b253-edc618187993"  hashCode -1276441130
      <<50, 52, 52, 99, 97, 102, 57, 99, 45, 52, 100, 97, 98, 45, 52, 52, 56, 49, 45, 98, 50, 53, 51, 45, 101, 100, 99, 54, 49, 56, 49, 56, 55, 57, 57, 51>>,
      \* "e3eff9c0-cf44-4d3f-89e7-d15f17362f25"  hashCode 1137781402
      <<101, 51, 101, 102, 102, 57, 99, 48, 45, 99, 102, 52, 52, 45, 52, 100, 51, 102, 45, 56, 57, 101, 55, 45, 100, 49, 53, 102, 49, 55, 51, 54, 50, 102, 50, 53>>,
      \* "986e86cb-0ab8-4b67-a26b-7f62b1852f27"  hashCode 877793222
      <<57, 56, 54, 101, 56, 54, 99, 98, 45, 48, 97, 98, 56, 45, 52, 98, 54, 55, 45, 97, 50, 54, 98, 45, 55, 102, 54, 50, 98, 49, 56, 53, 50, 102, 50, 55>>,
      \* "73f778aa-f6fa-4db8-a56a-bd72fb710734"  hashCode 450731493
      <<55, 51, 102, 55, 55, 56, 97, 97, 45, 102, 54, 102, 97, 45, 52, 100, 98, 56, 45, 97, 53, 54, 97, 45, 98, 100, 55, 50, 102, 98, 55, 49, 48, 55, 51, 52>>,
      \* "a66b0d38-9d95-447e-bd29-9753a7677796"  hashCode 688281352
      <<97, 54, 54, 98, 48, 100, 51, 56, 45, 57, 100, 57, 53, 45, 52, 52, 55, 101, 45, 98, 100, 50, 57, 45, 57, 55, 53, 51, 97, 55, 54, 55, 55, 55, 57, 54>>,
      \* "d4ea65d0-03d7-4684-9f85-58a628518867"  hashCode -795590576
      <<100, 52, 101, 97, 54, 53, 100, 48, 45, 48, 51, 100, 55, 45, 52, 54, 56, 52, 45, 57, 102, 56, 53, 45, 53, 56, 97, 54, 50, 56, 53, 49, 56, 56, 54, 55>>,
      \* "09208a65-0f3e-4dd3-902b-938b8743feb6"  hashCode -1199829484
      <<48, 57, 50, 48, 56, 97, 54, 53, 45, 48, 102, 51, 101, 45, 52, 100, 100, 51, 45, 57, 48, 50, 98, 45, 57, 51, 56, 98, 56, 55, 52, 51, 102, 101, 98, 54>>,
      \* "99809225-3def-4a38-a12b-2b8f30b17d0b"  hashCode -1402994179
      <<57, 57, 56, 48, 57, 50, 50, 53, 45, 51, 100, 101, 102, 45, 52, 97, 51, 56, 45, 97, 49, 50, 98, 45, 50, 98, 56, 102, 51, 48, 98, 49, 55, 100, 48, 98>>,
      \* "5387f613-76c4-48ae-8732-1cc007b37e14"  hashCode -848162671
      <<53, 51, 56, 55, 102, 54, 49, 51, 45, 55, 54, 99, 52, 45, 52, 56, 97, 101, 45, 56, 55, 51, 50, 45, 49, 99, 99, 48, 48, 55, 98, 51, 55, 101, 49, 52>>,
      \* "320094ea-d7a9-4ded-9749-1e2370c6a5b8"  hashCode -265595358
      <<51, 50, 48, 48, 57, 52, 101, 97, 45, 100, 55, 97, 57, 45, 52, 100, 101, 100, 45, 57, 55, 52, 57, 45, 49, 101, 50, 51, 55, 48, 99, 54, 97, 53, 98, 56>>,
      \* "4b4d8474-a3ea-484d-bbd0-334684e55160"  hashCode 442967925
      <<52, 98, 52, 100, 56, 52, 55, 52, 45, 97, 51, 101, 97, 45, 52, 56, 52, 100, 45, 98, 98, 100, 48, 45, 51, 51, 52, 54, 56, 52, 101, 53, 53, 49, 54, 48>>,
      \* "15c1d2df-a996-4aef-812d-0ea67ff12229"  hashCode -72936517
      <<49, 53, 99, 49, 100, 50, 100, 102, 45, 97, 57, 57, 54, 45, 52, 97, 101, 102, 45, 56, 49, 50, 100, 45, 48, 101, 97, 54, 55, 102, 102, 49, 50, 50, 50, 57>>,
      \* "6822a6b2-4735-4f1c-a7a1-149075139237"  hashCode 1340396119
      <<54, 56, 50, 50, 97, 54, 98, 50, 45, 52, 55, 51, 53, 45, 52, 102, 49, 99, 45, 97, 55, 97, 49, 45, 49, 52, 57, 48, 55, 53, 49, 51, 57, 50, 51, 55>>
    >>

\* Orders in which the generator may hand them out.
\* the colliding pair is handed out last
StreamLate ==
    [k \in 1..Len(UuidPool) |-> IF k <= Len(UuidPool) - 2 THEN k + 2 ELSE k + 2 - Len(UuidPool)]

\* the colliding pair is handed out second and third
StreamEarly ==
    [k \in 1..Len(UuidPool) |-> IF k = 1 THEN 3 ELSE IF k <= 3 THEN k - 1 ELSE k]

UuidStreams == {StreamLate, StreamEarly}

\* the colliding pair is handed out first and third
StreamApart ==
    [k \in 1..Len(UuidPool) |-> IF k = 2 THEN 3 ELSE IF k = 3 THEN 2 ELSE k]

\* hash = (hash << 5) - hash + c; hash |= 0     (31 * hash + c modulo 2^32)
HashStep(h, c) ==
    LET lo == 31 * h[2] + c
    IN  <<(31 * h[1] + (lo \div 65536)) % 65536, lo % 65536>>

\* the loop over the characters i..n of s, from hash h (h is computed before
\* the next character is looked at)
RECURSIVE HashFrom(_, _, _, _)
HashFrom(s, i, n, h) ==
    IF i > n THEN h
    ELSE LET h2 == HashStep(h, s[i])
         IN  IF h2[2] >= 0 THEN HashFrom(s, i + 1, n, h2) ELSE h2

Min(a, b) == IF a < b THEN a ELSE b

\* the same loop, six characters at a time
RECURSIVE HashBlocks(_, _, _)
HashBlocks(s, i, h) ==
    IF i > Len(s) THEN h
    ELSE LET h2 == HashFrom(s, i, Min(i + 5, Len(s)), h)
         IN  IF h2[2] >= 0 THEN HashBlocks(s, i + 6, h2) ELSE h2

hashCode(s) == HashBlocks(s, 1, <<0, 0>>)

\* id < 0
IsNegative(h) == h[1] >= 32768

\* -id, as the magnitude <<hi, lo>> (2^31 for the lowest integer)
Negate(h) ==
    <<(65536 - h[1] - (IF h[2] = 0 THEN 0 ELSE 1)) % 65536, (65536 - h[2]) % 65536>>

\* Number.prototype.toString of a non-negative integer: its decimal digits
RECURSIVE Digits(_)
Digits(m) ==
    LET qhi == m[1] \div 10
        t   == (m[1] % 10) * 65536 + m[2]
        q   == <<qhi, t \div 10>>
    IN  IF q = <<0, 0>> THEN <<t % 10>> ELSE Append(Digits(q), t % 10)

\* newId given the uuid drawn: hashCode(uuid()), negated when negative, as a string
newId(u) ==
    LET id == hashCode(u)
    IN  IF IsNegative(id) THEN Digits(Negate(id)) ELSE Digits(id)

\* uuid(): the next uuid of the generator
uuid(k) == UuidPool[rng[k]]

-----------------------------------------------------------------------------
(* ApiHandlerRegistry *)

\* the user handler functions; a registration may use any of them
HandlerIds == {"h1", "h2"}

\* a user function that may be set as the no-handler handler
CustomNoHandler == "hNone"

\* properties every plain object inherits from Object.prototype
ObjectPrototype == [constructor |-> "Object"]

\* properties every function inherits from Function.prototype
FunctionPrototype == [constructor |-> "Function"]

\* `= {}`: an object with no own property, whose prototype is Object.prototype
PlainObject == [own |-> << >>, proto |-> "Object.prototype"]

\* the property key as found along the prototype chain that starts at proto,
\* which is Object.prototype or a handler function
Inherited(proto, key) ==
    IF proto # "Object.prototype" /\ key \in DOMAIN FunctionPrototype
    THEN FunctionPrototype[key]
    ELSE IF key \in DOMAIN ObjectPrototype THEN ObjectPrototype[key]
    ELSE "undefined"

\* obj[key]: "__proto__" is the accessor Object.prototype has, which answers
\* the prototype; else the own property, else the inherited one
PropertyGet(obj, key) ==
    IF key = "__proto__" THEN obj.proto
    ELSE IF key \in DOMAIN obj.own THEN obj.own[key]
    ELSE Inherited(obj.proto, key)

\* Object.keys(obj) and _.keysIn(obj): the enumerable keys (neither
\* Object.prototype nor a function has one); the insertion order is not kept here
Keys(obj) == DOMAIN obj.own

getHandler(obj, messageName) == PropertyGet(obj, messageName)

getHandlerOrDefault(obj, dflt, messageName) ==
    LET h == PropertyGet(obj, messageName)
    IN  IF h # "undefined" THEN h ELSE dflt

handlerNames(obj) == Keys(obj)

\* no query answered since the registry last changed
NoLook == [op |-> "none", name |-> "", result |-> "undefined"]

\* this.handlersByMessageName[name] = handler: assigning to "__proto__" runs the
\* accessor's setter, which makes the function the object's prototype
Assign(obj, name, handler) ==
    IF name = "__proto__"
    THEN [obj EXCEPT !.proto = handler]
    ELSE [obj EXCEPT !.own = [k \in DOMAIN obj.own \cup {name} |->
                                IF k = name THEN handler ELSE obj.own[k]]]

\* the names register was called with so far
Registered == {n \in Names : lastRegistered[n] # "undefined"}

\* register(name, handler): `return this`
RegisterReturns == "this"

Register(name, handler) ==
    /\ frames = <<>>
    /\ name \in Registered \/ Cardinality(Registered) < MaxRegistered
    /\ handlersByMessageName' = Assign(handlersByMessageName, name, handler)
    /\ lastRegistered' = [lastRegistered EXCEPT ![name] = handler]
    /\ looked' = NoLook
    /\ UNCHANGED <<noHandlerHandler, preHandlers, postHandler, heapVars, rng, shim, eventVars, formVars, linkVars, loggerVars>>

\* register(name, handler) called while a dispatch is suspended in a pre-handler,
\* by that pre-handler or by another caller
RegisterWhileSuspended(name, handler) ==
    /\ \E f \in DOMAIN frames : frames[f].pc = "awaitPre"
    /\ name \in Registered \/ Cardinality(Registered) < MaxRegistered
    /\ lastRegistered[name] # handler
    /\ handlersByMessageName' = Assign(handlersByMessageName, name, handler)
    /\ lastRegistered' = [lastRegistered EXCEPT ![name] = handler]
    /\ looked' = NoLook
    /\ UNCHANGED <<noHandlerHandler, preHandlers, postHandler, heapVars, rng, shim, eventVars, formVars, linkVars, loggerVars>>

\* registerHandlers({n1: h1, n2: h2}): _.forEach registers n1, then n2
RegisterHandlers(n1, h1, n2, h2) ==
    /\ frames = <<>>
    /\ n1 # n2
    /\ Cardinality(Registered \cup {n1, n2}) <= MaxRegistered
    /\ handlersByMessageName' = Assign(Assign(handlersByMessageName, n1, h1), n2, h2)
    /\ lastRegistered' = [lastRegistered EXCEPT ![n1] = h1, ![n2] = h2]
    /\ looked' = NoLook
    /\ UNCHANGED <<noHandlerHandler, preHandlers, postHandler, heapVars, rng, shim, eventVars, formVars, linkVars, loggerVars>>

\* set noHandlerHandler(handler): handler || DEFAULT_NO_HANDLER
SetNoHandlerHandler(handler) ==
    /\ frames = <<>>
    /\ noHandlerHandler' = IF handler # "undefined" THEN handler ELSE "DEFAULT_NO_HANDLER"
    /\ noHandlerHandler' # noHandlerHandler
    /\ looked' = NoLook
    /\ UNCHANGED <<handlersByMessageName, preHandlers, postHandler, lastRegistered,
                   heapVars, rng, shim, eventVars, formVars, linkVars, loggerVars>>

\* registerPreHandler(preHandler): the k-th function registered is function k
RegisterPreHandler ==
    /\ frames = <<>>
    /\ Len(preHandlers) < MaxPre
    /\ preHandlers' = Append(preHandlers, Len(preHandlers) + 1)
    /\ looked' = NoLook
    /\ UNCHANGED <<handlersByMessageName, noHandlerHandler, postHandler, lastRegistered,
                   heapVars, rng, shim, eventVars, formVars, linkVars, loggerVars>>

\* registry.postHandler = p
SetPostHandler ==
    /\ frames = <<>>
    /\ postHandler = "undefined"
    /\ postHandler' = "post"
    /\ looked' = NoLook
    /\ UNCHANGED <<handlersByMessageName, noHandlerHandler, preHandlers, lastRegistered,
                   heapVars, rng, shim, eventVars, formVars, linkVars, loggerVars>>

\* a caller asks getHandlerOrDefault(name)
QueryHandlerOrDefault(name) ==
    /\ looked' = [op |-> "getHandlerOrDefault", name |-> name,
                  result |-> getHandlerOrDefault(handlersByMessageName, noHandlerHandler, name)]
    /\ looked' # looked
    /\ UNCHANGED <<registryVars, heapVars, rng, shim, eventVars, formVars, linkVars, loggerVars>>

\* a caller asks getHandler(name)
QueryHandler(name) ==
    /\ looked' = [op |-> "getHandler", name |-> name,
                  result |-> getHandler(handlersByMessageName, name)]
    /\ looked' # looked
    /\ UNCHANGED <<registryVars, heapVars, rng, shim, eventVars, formVars, linkVars, loggerVars>>

-----------------------------------------------------------------------------
(* DefaultContextFactory.newContext.  A context is named by its index in    *)
(* ctxts; parent 0 stands for `undefined`.                                  *)

\* newId() calls made by one newContext call
IdsDrawn(parent) == IF parent # 0 THEN 1 ELSE 2

\* const requestId = parent ? parent.requestId : newId()
RequestIdFor(parent) ==
    IF parent # 0 THEN ctxts[parent].requestId ELSE newId(uuid(nUuid + 1))

\* contextId: newId()
ContextIdFor(parent) == newId(uuid(nUuid + IdsDrawn(parent)))

\* a factory that gives a child its parent's depth
NestedDepthSame(parent) == IF parent # 0 THEN ctxts[parent].nestedDepth ELSE 0

\* nestedDepth: parent ? parent.nestedDepth + 1 : 0
NestedDepthFor(parent) == IF parent # 0 THEN ctxts[parent].nestedDepth + 1 ELSE 0

\* a factory that gives every context a bag of its own
DataFresh(parent) == Len(bags) + 1

\* data: parent ? parent.data : {}      ({} is a new entry of bags)
DataFor(parent) == IF parent # 0 THEN ctxts[parent].data ELSE Len(bags) + 1

\* { ...parent }: the properties a caller added come along
InheritedFor(parent) == IF parent # 0 THEN ctxts[parent].ext ELSE {}

\* a factory that spreads the parent over the computed fields
newContextParentWins(message, parent, self) ==
    IF parent # 0
    THEN [ctxts[parent] EXCEPT !.api = self]
    ELSE [ext         |-> {},
          log         |-> <<message.n, RequestIdFor(parent)>>,
          message     |-> message,
          contextId   |-> ContextIdFor(parent),
          parent      |-> parent,
          requestId   |-> RequestIdFor(parent),
          nestedDepth |-> 0,
          data        |-> Len(bags) + 1,
          api         |-> self]

\* the context object newContext(message, parent) builds at heap index self
newContext(message, parent, self) ==
    [ext         |-> InheritedFor(parent),
     log         |-> <<message.n, RequestIdFor(parent)>>,
     message     |-> message,
     contextId   |-> ContextIdFor(parent),
     parent      |-> parent,
     requestId   |-> RequestIdFor(parent),
     nestedDepth |-> NestedDepthFor(parent),
     data        |-> DataFor(parent),
     api         |-> self]      \* new NestableApi(this, this.messageInvoker, ctxt)

\* the heap after contexts cs were built by one newContext(_, parent) call
Allocated(cs, parent) ==
    /\ nUuid + IdsDrawn(parent) <= Len(rng)
    /\ ctxts' = ctxts \o cs
    /\ bags' = IF cs[1].data > Len(bags) THEN Append(bags, {}) ELSE bags
    /\ nUuid' = nUuid + IdsDrawn(parent)

\* BaseCqrsApi.createContextFor(message, ctxtOpts): the contexts it builds, the
\* last one being the one it returns.  ctxtOpts is the set of property names the
\* caller adds; { ...ctxt, ...ctxtOpts } is a second object.
createContextFor(message, ctxtOpts) ==
    LET ctxt == newContext(message, 0, Len(ctxts) + 1)
    IN  IF ctxtOpts # {}
        THEN <<ctxt, [ctxt EXCEPT !.ext = @ \cup ctxtOpts]>>
        ELSE <<ctxt>>

-----------------------------------------------------------------------------
(* ContextFactoryShim and the constructor of BaseCqrsApi.  binds counts the *)
(* assignments to shim.delegate (history).                                  *)

\* new ContextFactoryShim(): delegate is not set
NewShim == [delegate |-> "undefined", binds |-> 0]

\* a constructor that leaves the delegate unset
BindNothing(factory) == "undefined"

\* shim.delegate = this.ctxtFactory: the value assigned
BindDelegate(factory) == factory

Bind(s, factory) == [delegate |-> BindDelegate(factory), binds |-> s.binds + 1]

\* the shim once the constructor of BaseCqrsApi has run
BaseCqrsApiConstructor == Bind(NewShim, "DefaultContextFactory")

\* ContextFactoryShim.newContext: this.delegate.newContext(message, parent)
\* throws a TypeError when delegate is not set
ShimThrows == shim.delegate = "undefined"

-----------------------------------------------------------------------------
(* MessageHandlerInvoker.invokeHandlerFor: one frame per activation.        *)
(*   pc       "awaitPre", "awaitHandler", "awaitPost" (suspended), "done"   *)
(*   ctxt, message, i   the locals ctxt, message and i (i counts from 1)    *)
(*   pending  what the awaited call handed back                             *)
(*   handler, hpc   the handler called and how far its body is              *)
(*   outcome, result   how the returned promise settled                     *)
(*   caller, child   the frame whose handler dispatched this one; the frame *)
(*                   this frame's handler dispatched                        *)
(* and, as history: ctxt0 (the context passed in), preCalled (pre-handlers  *)
(* called), preArgs (the message and context each was called with),        *)
(* preKinds (how each call handed its result back), running                *)
(* (calls not yet settled), nRepl (replacements made),                      *)
(* handlerMsg/handlerCtxt and postMsg/postCtxt/postArg (arguments passed),  *)
(* preSeen (what each awaited pre-handler call gave), handlerRes (what the  *)
(* handler call gave), postRes (what the post-handler handed back),         *)
(* postCalls, warned (the records the outer catch logged), errored (the     *)
(* records the inner catch of the pre-handler loop logged), found0 (the     *)
(* handler a lookup made on entry would have found),                        *)
(* wrote (key written into data), seen (data as read back).                 *)

NoRaw == Raw("none", Undefined)

\* the four operations of CqrsApi
Ops == {"invoke", "get", "find", "command"}

\* an adapter whose get passes nothing on
ApiAdapterGetEmpty(op, message) == IF op = "get" THEN Undefined ELSE message

\* ApiAdapter: what each operation passes to invokeHandler
ApiAdapter(op, message) ==
    CASE op = "invoke"  -> message     \* return this.invokeHandler(message)
      [] op = "get"     -> message     \* return this.invokeHandler(query)
      [] op = "find"    -> message     \* return this.invokeHandler(find)
      [] op = "command" -> message     \* return this.invokeHandler(command)

\* a call of operation op with a message
OpCall(op, message) == [op |-> op, message |-> message]

\* a wrapper that sends everything to invoke
DelegatingAllInvoke(op, message) == OpCall("invoke", message)

\* DelegatingCqrsApi: the call each operation makes on this._delegate
DelegatingCqrsApi(op, message) ==
    CASE op = "invoke"  -> OpCall("invoke", message)
      [] op = "get"     -> OpCall("get", message)
      [] op = "find"    -> OpCall("find", message)
      [] op = "command" -> OpCall("command", message)

\* DelegatingCqrsApi: `return await this._delegate.op(message)`, once the
\* delegate's promise has settled
ReturnAwait(outcome, result) == [thrown |-> outcome = "rejected", v |-> result]

\* How a dispatch was entered (history): through which object, by which
\* operation, with which message, and the call a wrapper made on its delegate.
Entry(via, op, given, delegated) ==
    [via |-> via, op |-> op, given |-> given, delegated |-> delegated]

\* entered by invokeHandler or invokeHandlerFor directly
NoEntry == Entry("direct", "invokeHandler", Undefined, OpCall("none", Undefined))

\* a lookup that keeps the default handler under the name it was asked for
AfterLookupCaches(obj, dflt, messageName) ==
    IF PropertyGet(obj, messageName) = "undefined"
    THEN [obj EXCEPT !.own = [k \in DOMAIN obj.own \cup {messageName} |->
                                IF k = messageName THEN dflt ELSE obj.own[k]]]
    ELSE obj

\* getHandlerOrDefault: the mapping after the lookup (it assigns nothing)
AfterLookup(obj, dflt, messageName) == obj

NewFrame(c, message, caller) ==
    [pc |-> "start", ctxt0 |-> c, ctxt |-> c, message |-> message, i |-> 1,
     pending |-> NoRaw, handler |-> "undefined", hpc |-> "none",
     outcome |-> "pending", result |-> Undefined, caller |-> caller, child |-> 0,
     preCalled |-> <<>>, preArgs |-> <<>>, preKinds |-> <<>>, preSeen |-> <<>>,
     running |-> {},
     nRepl |-> 0,
     handlerMsg |-> Undefined, handlerCtxt |-> 0, handlerRes |-> NotAwaited,
     postCalls |-> 0, postMsg |-> Undefined, postCtxt |-> 0, postArg |-> Undefined,
     postRes |-> NoRaw,
     found0 |-> getHandlerOrDefault(handlersByMessageName, noHandlerHandler, message.n),
     wrote |-> 0, seen |-> {}, entry |-> NoEntry, wrapper |-> NotAwaited,
     warned |-> <<>>, errored |-> <<>>]

\* the async function's promise settles
Finish(fr, outcome, v) ==
    [fr EXCEPT !.pc = "done", !.outcome = outcome, !.result = v,
               !.pending = NoRaw, !.running = {}]

\* a pipeline that hands the falsy value back
ReturnPreResponse(fr, preResponse) == Finish(fr, "resolved", preResponse)

\* if (!preResponse) { return }
ReturnNothing(fr, preResponse) == Finish(fr, "resolved", Undefined)

\* a pipeline that takes a value that is no message for nothing
ReturnFromLoopNothing(fr, preResponse) == Finish(fr, "resolved", Undefined)

\* return preResponse
ReturnFromLoop(fr, preResponse) == Finish(fr, "resolved", preResponse)

\* a pipeline that replaces the context and keeps the message
ReplaceContextOnly(fr, preResponse, c) == [fr EXCEPT !.ctxt = c, !.nRepl = @ + 1]

\* a pipeline that replaces the message and keeps the context it had
ReplaceMessageOnly(fr, preResponse, c) ==
    [fr EXCEPT !.message = preResponse, !.nRepl = @ + 1]

\* ctxt = this.ctxtFactory.newContext(preResponse, ctxt); message = preResponse
\* (c is the new context)
Replace(fr, preResponse, c) ==
    [fr EXCEPT !.ctxt = c, !.message = preResponse, !.nRepl = @ + 1]

\* a pipeline that calls the post-handler and keeps the handler's response
KeepResponse(response, post) == response

\* response = this.registry.postHandler(message, ctxt, response)
AssignResponse(response, post) == post

\* the outer catch: log.warn(`... '${err.message}' ...`) reads a property of err,
\* then return Promise.reject(err)
CatchBoundary(err) == IF err.t \in {"undefined", "null"} THEN TypeError ELSE err

\* a catch block that never settles the promise
CatchHangs(fr, err) == fr

\* a pipeline that calls the post-handler on failure too
CatchThenPost(fr, err) ==
    [Finish(fr, "rejected", CatchBoundary(err)) EXCEPT !.postCalls = @ + 1]

\* this.log.warn(`Handler for '${ctxt.message?.messageName}' returned error. Error
\* message '${err.message}'. ...`, {cause: err}): the record handed to the
\* invoker's logger (ctxt.message is the local message: both are assigned
\* together)
LogWarn(fr, err) ==
    [messageName |-> fr.message.n, errorMessage |-> err.n, cause |-> err]

\* the outer catch: when building the text throws, nothing is logged
Catch(fr, err) ==
    [Finish(fr, "rejected", CatchBoundary(err)) EXCEPT
        !.warned = IF CatchBoundary(err) = err THEN Append(@, LogWarn(fr, err)) ELSE @]

\* a facade that hands a rejection back as a value
NestedOutcomeSwallowed(ch) == Raw("resolve", ch.result)

\* return this.messageInvoker.invokeHandlerFor(ctxt): what the handler awaiting
\* the nested dispatch ch gets
NestedOutcome(ch) ==
    Raw(IF ch.outcome = "resolved" THEN "resolve" ELSE "reject", ch.result)

\* How a pre-handler may behave: it hands back the message it was given, a new
\* message object, a value that is no message, or nothing, directly or through
\* a promise; or it throws or rejects.
Behaviour(kind, what) == [kind |-> kind, what |-> what]

PreBehaviours ==
    {Behaviour(k, w) : k \in {"value", "resolve"},
                       w \in {"same", "new", "object", "undefined", "null"}}
    \cup {Behaviour("throw", "failure"), Behaviour("reject", "failure"),
          Behaviour("reject", "undefined"), Behaviour("throw", "undefined")}

\* What a pre-handler behaving as b hands back when called with message m; free
\* is the number a message object it makes gets.  A pre-handler that makes a
\* new message names it "B".
PreResult(b, m, free) ==
    Raw(b.kind, CASE b.what = "same"      -> m
                  [] b.what = "new"       -> Message("B", free)
                  [] b.what = "object"    -> PlainValue
                  [] b.what = "undefined" -> Undefined
                  [] b.what = "null"      -> Null
                  [] b.what = "failure"   -> Failure("pre"))

\* What the post-handler may hand back: it throws, or a promise that settles.
PostResults ==
    {Raw("throw", Failure("post")), Raw("resolve", Response("post")),
     Raw("reject", Failure("post"))}

\* a loop that walks the list from its end
PreHandlerAtReversed(list, i) == list[Len(list) + 1 - i]

\* const preHandler = preHandlers[i]
PreHandlerAt(list, i) == list[i]

\* func.toString().split(/\r?\n/) of the k-th pre-handler registered, every line
\* trimmed, as sequences of characters ("backquote" being the character `):
\* the first has a doc string, the second has none, any further one has a doc
\* string that is not closed
PreHandlerSource(k) ==
    CASE k = 1 -> << <<"(", ")", "{">>, <<"'", "d", "o", "c", "'", ";">>, <<"}">> >>
      [] k = 2 -> << <<"(", ")", "{">>, <<"r">>, <<"}">> >>
      [] OTHER -> << <<"(", ")", "{">>, <<>>, <<"backquote", "d">>, <<"}">> >>

\* util.ts extractFunctionDocs, on the trimmed source lines: the first of the
\* first four lines that starts with a quote opens the doc string, the first
\* line from there on that ends with that quote (or with it and ';') closes it;
\* the lines between are joined with '\n' 
extractFunctionDocs(srcLines) ==
    LET RECURSIVE JoinLines(_, _, _)
        JoinLines(lines, i, j) ==
            IF i > j THEN <<>>
            ELSE IF i = j THEN lines[i]
            ELSE lines[i] \o <<"\n">> \o JoinLines(lines, i + 1, j)
        EndsWith(line, c) == Len(line) > 0 /\ line[Len(line)] = c
        EndsWithSemi(line, c) ==
            Len(line) > 1 /\ line[Len(line)] = ";" /\ line[Len(line) - 1] = c
        begins == {i \in 1..Min(Len(srcLines), 4) :
                      Len(srcLines[i]) > 0 /\ srcLines[i][1] \in {"'", "\"", "backquote"}}
        startIdx == CHOOSE i \in begins : \A i2 \in begins : i <= i2
        startChar == srcLines[startIdx][1]
        ends == {j \in startIdx..Len(srcLines) :
                    \/ EndsWithSemi(srcLines[j], startChar)
                    \/ EndsWith(srcLines[j], startChar)}
        endIdx == CHOOSE j \in ends : \A j2 \in ends : j <= j2
        joined == JoinLines(srcLines, startIdx, endIdx)
        docs == IF EndsWith(joined, ";") THEN SubSeq(joined, 1, Len(joined) - 1)
                ELSE joined
    IN  IF begins = {} \/ ends = {}
        THEN [defined |-> FALSE, text |-> <<>>]
        ELSE [defined |-> TRUE, text |-> SubSeq(docs, 2, Len(docs) - 1)]

\* the inner catch: this.log.error(`Error running pre handler for message
\* '${message?.messageName}'`, {handlerDocs, cause: err, handler}); throw err,
\* which the outer catch receives
CatchPre(fr, err) ==
    LET preHandler == PreHandlerAt(preHandlers, fr.i)
    IN  Catch([fr EXCEPT !.errored = Append(@,
                  [messageName |-> fr.message.n,
                   handlerDocs |-> extractFunctionDocs(PreHandlerSource(preHandler)),
                   cause       |-> err,
                   handler     |-> PreHandlerSource(preHandler)])], err)

\* preResponse = await preHandler(message, ctxt), up to the await
CallPreHandler(fr, raw) ==
    LET called == [fr EXCEPT !.preCalled = Append(@, PreHandlerAt(preHandlers, fr.i)),
                             !.preArgs = Append(@, <<fr.message, fr.ctxt>>),
                             !.preKinds = Append(@, raw.kind)]
    IN  IF raw.kind = "throw"
        THEN CatchPre([called EXCEPT !.preSeen = Append(@, Awaited(raw))], raw.v)
        ELSE [called EXCEPT !.pc = "awaitPre", !.pending = raw,
                            !.running = @ \cup {<<"pre", fr.i>>}]

\* DEFAULT_NO_HANDLER: Promise.reject(new CqrsApiError({key, ..., data:
\* {registeredHandlers: _.keysIn(this.handlersByMessageName)}}))
NoSuchHandlerKey == "CQRS_API_NO_SUCH_HANDLER"

DEFAULT_NO_HANDLER(message) ==
    Raw("reject", [t |-> "error", n |-> NoSuchHandlerKey, id |-> 0,
                   data |-> Keys(handlersByMessageName)])

\* What the call handler(message, ctxt) hands back at once.
HandlerResults(h, message) ==
    IF h = "DEFAULT_NO_HANDLER" THEN {DEFAULT_NO_HANDLER(message)}
    ELSE IF h = "Object" THEN {Raw("value", message)}     \* Object(message) is message
    ELSE {Raw("throw", Failure(h)), Raw("pending", Undefined)}

\* the handler the pipeline calls for the message
HandlerFor(message) ==
    getHandlerOrDefault(handlersByMessageName, noHandlerHandler, message.n)

\* a pipeline that looks the handler up before it runs the pre-handlers
LookedUpOnEntry(fr) == fr.found0

\* const handler = this.registry.getHandlerOrDefault(message.messageName), which
\* the pipeline reaches once the pre-handler loop is over
LookedUpFor(fr) == HandlerFor(fr.message)

\* let response = await handler(message, ctxt), up to the await
CallHandler(fr, raw) ==
    LET called == [fr EXCEPT !.handler = LookedUpFor(fr),
                             !.handlerMsg = fr.message, !.handlerCtxt = fr.ctxt,
                             !.handlerRes = IF raw.kind = "throw" THEN Awaited(raw)
                                            ELSE NotAwaited]
    IN  IF raw.kind = "throw"
        THEN Catch(called, raw.v)
        ELSE [called EXCEPT !.pc = "awaitHandler", !.pending = raw,
                            !.handlerRes = IF raw.kind = "pending" THEN NotAwaited
                                           ELSE Awaited(raw),
                            !.hpc = IF raw.kind = "pending" THEN "running" ELSE "settled",
                            !.running = @ \cup {<<"handler", 0>>}]

\* The frames the pipeline can be suspended (or finished) in next, from the top of
\* the loop `for (i ...; i < preHandlers.length; i++)` on; B is how a pre-handler
\* may behave, free the number a message object made in this step gets.
Continue(fr, free, B) ==
    IF fr.i <= Len(preHandlers)
    THEN {CallPreHandler(fr, PreResult(b, fr.message, free)) : b \in B}
    ELSE {CallHandler(fr, raw) : raw \in HandlerResults(LookedUpFor(fr), fr.message)}

\* message objects allocated once frame x has been reached
ObjsAfter(x, free) ==
    IF x.pc = "awaitPre" /\ x.pending.v.t = "message" /\ x.pending.v.id = free
    THEN free ELSE free - 1

\* the pre-handler loop's `i++`
NextIndex(i) == i + 1

\* the mapping once frame x has been reached, with its lookup if it made one
MappingAfter(x) ==
    IF x.pc = "awaitHandler" \/ x.handler # "undefined"
    THEN AfterLookup(handlersByMessageName, noHandlerHandler, x.message.n)
    ELSE handlersByMessageName

\* what a dispatch step leaves alone besides the heap
dispatchKeeps ==
    <<noHandlerHandler, preHandlers, postHandler, lastRegistered, looked, rng, shim, eventVars, formVars, linkVars, loggerVars>>

\* the dispatches made by top-level callers
TopFrames == {f \in DOMAIN frames : frames[f].caller = 0}

\* createContextFor(message, ctxtOpts) and invokeHandlerFor(ctxt), up to the
\* first await; entry says how the caller got here, others how many top-level
\* dispatches may be under way already.
Enter(message, ctxtOpts, B, entry, others) ==
    /\ Cardinality(TopFrames) <= others
    /\ LET cs == createContextFor(message, ctxtOpts)
       IN  /\ Allocated(cs, 0)
           /\ \E x \in Continue(NewFrame(Len(ctxts) + Len(cs), message, 0),
                                 nObjs + 2, B) :
                 /\ frames' = Append(frames, [x EXCEPT !.entry = entry])
                 /\ nObjs' = ObjsAfter(x, nObjs + 2)
                 /\ handlersByMessageName' = MappingAfter(x)
    /\ UNCHANGED dispatchKeeps

\* A top-level dispatch: createContextFor(message, ctxtOpts) and
\* invokeHandlerFor(ctxt); with no ctxtOpts this is BaseCqrsApi.invokeHandler.
Dispatch(name, ctxtOpts, B) ==
    /\ frames = <<>>
    /\ Enter(Message(name, nObjs + 1), ctxtOpts, B, NoEntry, 0)

\* A second top-level caller calls invokeHandler while the dispatch of the
\* first is suspended or has finished.
DispatchBeside(name, B) ==
    /\ frames # <<>>
    /\ Enter(Message(name, nObjs + 1), {}, B, NoEntry, 1)

\* A top-level caller calls operation op of the API object (via "api") or of
\* its readonlyApi (via "readonlyApi", a DelegatingCqrsApi whose delegate is
\* the API object).
Call(via, op, name, B) ==
    LET given == Message(name, nObjs + 1)
        delegated == IF via = "readonlyApi" THEN DelegatingCqrsApi(op, given)
                     ELSE OpCall(op, given)
    IN  Enter(ApiAdapter(delegated.op, delegated.message), {}, B,
              Entry(via, op, given, delegated), 0)

\* a pipeline that takes every message a pre-handler gives back for a new one
AlwaysReplacement(message, preResponse) == TRUE

\* a pipeline that tells a replacement by its name
IsReplacementByName(message, preResponse) == message.n # preResponse.n

\* if (message !== preResponse)
IsReplacement(message, preResponse) == message # preResponse

\* The awaited pre-handler call settles and the loop goes on: the classification
\* of preResponse, the replacement context, and the next call up to its await.
PreHandlerSettled(f, B) ==
    /\ f \in DOMAIN frames
    /\ frames[f].pc = "awaitPre"
    /\ LET raw == frames[f].pending
           fr  == [frames[f] EXCEPT !.running = @ \ {<<"pre", frames[f].i>>},
                                    !.preSeen = Append(@, Awaited(raw))]
           preResponse == AwaitValue(raw)
       IN  IF AwaitThrows(raw)
           THEN /\ frames' = [frames EXCEPT ![f] = CatchPre(fr, raw.v)]
                /\ UNCHANGED <<ctxts, bags, nUuid, nObjs, handlersByMessageName>>
           ELSE IF ~Truthy(preResponse)
           THEN /\ frames' = [frames EXCEPT ![f] = ReturnNothing(fr, preResponse)]
                /\ UNCHANGED <<ctxts, bags, nUuid, nObjs, handlersByMessageName>>
           ELSE IF IsPromise(preResponse) \/ ~HasMessageName(preResponse)
           THEN /\ frames' = [frames EXCEPT ![f] = ReturnFromLoop(fr, preResponse)]
                /\ UNCHANGED <<ctxts, bags, nUuid, nObjs, handlersByMessageName>>
           ELSE IF IsReplacement(fr.message, preResponse) /\ ShimThrows
           THEN /\ frames' = [frames EXCEPT ![f] = Catch(fr, TypeError)]
                /\ UNCHANGED <<ctxts, bags, nUuid, nObjs, handlersByMessageName>>
           ELSE IF IsReplacement(fr.message, preResponse)
           THEN \* ctxt = this.ctxtFactory.newContext(preResponse, ctxt); message = preResponse
                /\ Allocated(<<newContext(preResponse, fr.ctxt, Len(ctxts) + 1)>>, fr.ctxt)
                /\ \E x \in Continue([Replace(fr, preResponse, Len(ctxts) + 1)
                                         EXCEPT !.pending = NoRaw,
                                                !.i = NextIndex(@)], nObjs + 1, B) :
                      /\ frames' = [frames EXCEPT ![f] = x]
                      /\ nObjs' = ObjsAfter(x, nObjs + 1)
                      /\ handlersByMessageName' = MappingAfter(x)
           ELSE /\ \E x \in Continue([fr EXCEPT !.pending = NoRaw,
                                                !.i = NextIndex(@)], nObjs + 1, B) :
                      /\ frames' = [frames EXCEPT ![f] = x]
                      /\ nObjs' = ObjsAfter(x, nObjs + 1)
                      /\ handlersByMessageName' = MappingAfter(x)
                /\ UNCHANGED <<ctxts, bags, nUuid>>
    /\ UNCHANGED dispatchKeeps

\* how the body of a user handler may end: with its response, or rejecting
HandlerEndings(h) ==
    {Raw("resolve", Response(h)), Raw("reject", Failure(h)), Raw("reject", Undefined)}

\* ctxt.data[key] = ...
WriteData(bag, key) == bag \cup {key}

\* The body of a user handler ends: it may first write a key into ctxt.data,
\* then its promise settles.
HandlerSettle(f, raw, write) ==
    /\ f \in DOMAIN frames
    /\ frames[f].pc = "awaitHandler"
    /\ frames[f].hpc = "running"
    /\ raw \in HandlerEndings(frames[f].handler)
    /\ frames' = [frames EXCEPT ![f].pending = raw, ![f].hpc = "settled",
                                ![f].handlerRes = Awaited(raw),
                                ![f].wrote = IF write THEN f ELSE 0]
    /\ bags' = IF write
               THEN [bags EXCEPT ![ctxts[frames[f].handlerCtxt].data] = WriteData(@, f)]
               ELSE bags
    /\ UNCHANGED <<registryVars, looked, rng, shim, eventVars, formVars, linkVars, loggerVars, ctxts, nObjs, nUuid>>

\* The body of a user handler calls operation op of its ctxt.api, which is
\* NestableApi.invokeHandler(message): a new context under the facade's
\* currentCtxt, then invokeHandlerFor on it; the handler awaits the outcome.
HandlerNest(f, op, name, B) ==
    /\ f \in DOMAIN frames
    /\ frames[f].pc = "awaitHandler"
    /\ frames[f].hpc = "running"
    /\ Len(frames) < MaxFrames
    /\ LET given == Message(name, nObjs + 1)
           message == ApiAdapter(op, given)
           currentCtxt == ctxts[frames[f].handlerCtxt].api
           ctxt == newContext(message, currentCtxt, Len(ctxts) + 1)
       IN  /\ Allocated(<<ctxt>>, currentCtxt)
           /\ \E x \in Continue(NewFrame(Len(ctxts) + 1, message, f), nObjs + 2, B) :
                 /\ frames' = Append([frames EXCEPT ![f].hpc = "nested",
                                                    ![f].child = Len(frames) + 1],
                                     [x EXCEPT !.entry =
                                         Entry("ctxt.api", op, given, OpCall(op, given))])
                 /\ nObjs' = ObjsAfter(x, nObjs + 2)
                 /\ handlersByMessageName' = MappingAfter(x)
    /\ UNCHANGED dispatchKeeps

\* The nested dispatch has settled: the handler reads ctxt.data and ends with the
\* nested outcome (it does not catch a rejection).
HandlerNestReturn(f) ==
    /\ f \in DOMAIN frames
    /\ frames[f].hpc = "nested"
    /\ frames[frames[f].child].pc = "done"
    /\ LET ch == frames[frames[f].child]
           raw == NestedOutcome(ch)
       IN  frames' = [frames EXCEPT
              ![f].pending = raw,
              ![f].handlerRes = Awaited(raw),
              ![f].hpc = "settled",
              ![f].seen = bags[ctxts[frames[f].handlerCtxt].data]]
    /\ UNCHANGED <<registryVars, looked, rng, shim, eventVars, formVars, linkVars, loggerVars, ctxts, bags, nObjs, nUuid>>

\* a pipeline that calls the post-handler with what the dispatch was entered with
PostArgumentsEntered(fr, response) == <<ctxts[fr.ctxt0].message, fr.ctxt0, response>>

\* this.registry.postHandler(message, ctxt, response): the three arguments
PostArguments(fr, response) == <<fr.message, fr.ctxt, response>>

\* The awaited handler call settles: the post-handler, if one is set, is called
\* with the response and what it hands back is returned.
HandlerAwaited(f) ==
    /\ f \in DOMAIN frames
    /\ frames[f].pc = "awaitHandler"
    /\ frames[f].hpc = "settled"
    /\ LET fr  == [frames[f] EXCEPT !.running = @ \ {<<"handler", 0>>}]
           raw == fr.pending
           response == AwaitValue(raw)
       IN  IF AwaitThrows(raw)
           THEN frames' = [frames EXCEPT ![f] = Catch(fr, raw.v)]
           ELSE IF postHandler # "undefined"
           THEN \E post \in PostResults :
                   LET args   == PostArguments(fr, response)
                       called == [fr EXCEPT !.postCalls = @ + 1, !.postMsg = args[1],
                                            !.postCtxt = args[2], !.postArg = args[3],
                                            !.postRes = post]
                   IN  frames' = [frames EXCEPT ![f] =
                          IF post.kind = "throw"
                          THEN Catch(called, post.v)
                          ELSE [called EXCEPT
                                   !.pc = "awaitPost",
                                   !.pending = AssignResponse(Raw("value", response), post),
                                   !.running = @ \cup {<<"post", 0>>}]]
           ELSE frames' = [frames EXCEPT ![f] = Finish(fr, "resolved", response)]
    /\ UNCHANGED <<registryVars, looked, rng, shim, eventVars, formVars, linkVars, loggerVars, ctxts, bags, nObjs, nUuid>>

\* `return response` with response the post-handler's promise: the dispatch
\* settles as that promise does (outside the try block's reach).
PostSettled(f) ==
    /\ f \in DOMAIN frames
    /\ frames[f].pc = "awaitPost"
    /\ LET fr == frames[f]
       IN  frames' = [frames EXCEPT ![f] =
              Finish(fr, IF AwaitThrows(fr.pending) THEN "rejected" ELSE "resolved",
                     fr.pending.v)]
    /\ UNCHANGED <<registryVars, looked, rng, shim, eventVars, formVars, linkVars, loggerVars, ctxts, bags, nObjs, nUuid>>

\* The promise of the DelegatingCqrsApi operation settles, after the promise of
\* the operation it called on its delegate has.
WrapperSettled(f) ==
    /\ f \in DOMAIN frames
    /\ frames[f].entry.via = "readonlyApi"
    /\ frames[f].pc = "done"
    /\ frames[f].wrapper = NotAwaited
    /\ frames' = [frames EXCEPT ![f].wrapper = ReturnAwait(frames[f].outcome,
                                                           frames[f].result)]
    /\ UNCHANGED <<registryVars, looked, rng, shim, eventVars, formVars, linkVars, loggerVars, ctxts, bags, nObjs, nUuid>>

-----------------------------------------------------------------------------
(* events.ts: one EventDef (one event NAME) over two EventEmitter2 emitters: *)
(* "this.emitter", the one the EventDef was constructed with, and "emitter", *)
(* another one a caller passes to subscribe and emit ("undefined" when the   *)
(* caller passes none).  An emitter holds the listeners registered for the   *)
(* event in the order of registration; a listener is a function, compared by *)
(* identity.                                                                 *)

\* EventSubscription objects created in one run
MaxSubscriptions == 2
\* EventDef.emit calls in one run
MaxEmits == 2

\* EventEmitter2.off(NAME, listener): the first registration of the listener
\* is taken out of the list, if there is one
RECURSIVE RemoveListener(_, _)
RemoveListener(registered, listener) ==
    IF registered = <<>> THEN <<>>
    ELSE IF Head(registered) = listener THEN Tail(registered)
    ELSE <<Head(registered)>> \o RemoveListener(Tail(registered), listener)

\* EventDef.off(listener): this.emitter.off(this.NAME, listener)
off(registered, listener) ==
    [registered EXCEPT !["this.emitter"] = RemoveListener(@, listener)]

\* a subscription that cancels again
NeverAlreadyCancelled(sub) == FALSE

\* if (this._cancelled) return
AlreadyCancelled(sub) == sub.cancelled

\* EventSubscription.cancel() on subscription s of the state ev =
\* [subscriptions, emitterListeners]; offCalls counts the eventDef.off calls
cancel(ev, s) ==
    IF AlreadyCancelled(ev.subscriptions[s]) THEN ev
    ELSE [subscriptions |->
              [ev.subscriptions EXCEPT ![s].cancelled = TRUE, ![s].offCalls = @ + 1],
          emitterListeners |-> off(ev.emitterListeners, ev.subscriptions[s].listener)]

\* EventDef.subscribe(listener, emitter): on(NAME, listener) on the emitter
\* given or else on this.emitter, then new EventSubscription(this, listener);
\* subscribedOn and the counters are history
Subscribe(listener, emitter) ==
    /\ Len(subscriptions) < MaxSubscriptions
    /\ LET target == IF emitter # "undefined" THEN emitter ELSE "this.emitter"
       IN  /\ emitterListeners' = [emitterListeners EXCEPT ![target] = Append(@, listener)]
           /\ subscriptions' = Append(subscriptions,
                  [listener |-> listener, cancelled |-> FALSE,
                   registeredWithVue |-> FALSE, subscribedOn |-> target,
                   offCalls |-> 0, hooks |-> 0])
    /\ UNCHANGED <<vueHooks, lastEmit,
                   registryVars, heapVars, looked, rng, shim, formVars, linkVars, loggerVars>>

\* subscription.cancel()
Cancel(s) ==
    /\ s \in DOMAIN subscriptions
    /\ LET after == cancel([subscriptions |-> subscriptions,
                            emitterListeners |-> emitterListeners], s)
       IN  /\ subscriptions' = after.subscriptions
           /\ emitterListeners' = after.emitterListeners
    /\ UNCHANGED <<vueHooks, lastEmit,
                   registryVars, heapVars, looked, rng, shim, formVars, linkVars, loggerVars>>

\* subscription.cancelOnDestroy(vue)
CancelOnDestroy(s, vue) ==
    /\ s \in DOMAIN subscriptions
    /\ IF ~subscriptions[s].registeredWithVue
       THEN /\ vueHooks' = [vueHooks EXCEPT ![vue] = Append(@, s)]
            /\ subscriptions' = [subscriptions EXCEPT ![s].registeredWithVue = TRUE,
                                                      ![s].hooks = @ + 1]
       ELSE UNCHANGED <<vueHooks, subscriptions>>
    /\ UNCHANGED <<emitterListeners, lastEmit,
                   registryVars, heapVars, looked, rng, shim, formVars, linkVars, loggerVars>>

\* the vue component is destroyed: its 'hook:beforeDestroy' callbacks run in
\* order, each cancelling its subscription, and are gone ($once)
Destroy(vue) ==
    /\ vueHooks[vue] # <<>>
    /\ LET RECURSIVE RunHooks(_, _)
           RunHooks(ev, hooks) ==
               IF hooks = <<>> THEN ev
               ELSE RunHooks(cancel(ev, Head(hooks)), Tail(hooks))
           after == RunHooks([subscriptions |-> subscriptions,
                              emitterListeners |-> emitterListeners], vueHooks[vue])
       IN  /\ subscriptions' = after.subscriptions
           /\ emitterListeners' = after.emitterListeners
    /\ vueHooks' = [vueHooks EXCEPT ![vue] = <<>>]
    /\ UNCHANGED <<lastEmit,
                   registryVars, heapVars, looked, rng, shim, formVars, linkVars, loggerVars>>

\* EventDef.emit(args, emitter): every listener registered on the emitter
\* given or else on this.emitter is invoked, in order
Emit(emitter) ==
    /\ lastEmit.n < MaxEmits
    /\ LET target == IF emitter # "undefined" THEN emitter ELSE "this.emitter"
       IN  lastEmit' = [n |-> lastEmit.n + 1, emitter |-> target,
                        invoked |-> emitterListeners[target]]
    /\ UNCHANGED <<emitterListeners, subscriptions, vueHooks,
                   registryVars, heapVars, looked, rng, shim, formVars, linkVars, loggerVars>>

-----------------------------------------------------------------------------
(* forms.ts: PropertiesForm and FormProperty with the module's storage       *)
(* provider.  An emitter is a number: 0 is events.$defaultEmmitter, the     *)
(* emitter of every event made by defineEvent, and k > 0 is the emitter     *)
(* `new EventEmitter2(...)` made for the k-th form.  A storage key is the    *)
(* tuple of its parts.  A string is a value of kind "string" with its text  *)
(* in n, a number one of kind "number" with its value in id.               *)

\* PropertiesForm objects created in one run
MaxForms == 2
\* FormProperty objects created in one run
MaxProperties == 2

\* a == b: null and undefined equal each other and nothing else, a number and
\* a string are compared as numbers, values of one type by value
LooseEquals(a, b) ==
    LET ToNumber(s) == CASE s = "" -> 0 [] s = "0" -> 0 [] s = "1" -> 1
    IN  IF a.t = b.t THEN a = b
        ELSE IF a.t \in {"undefined", "null"} /\ b.t \in {"undefined", "null"} THEN TRUE
        ELSE IF a.t = "number" /\ b.t = "string" THEN a.id = ToNumber(b.n)
        ELSE IF a.t = "string" /\ b.t = "number" THEN ToNumber(a.n) = b.id
        ELSE FALSE

\* saveToLocalStore: the key is never empty; storage.setValue(key,
\* this.value ? `${this.value}` : undefined), undefined, null, 0 and ''
\* being falsy
saveToLocalStore(store, prop) ==
    LET v == prop.value
        truthy == /\ v.t \notin {"undefined", "null"}
                  /\ v.t = "number" => v.id # 0
                  /\ v.t = "string" => v.n # ""
        text == IF v.t = "string" THEN v.n ELSE IF v.id = 0 THEN "0" ELSE "1"
        written == IF truthy THEN [t |-> "string", n |-> text, id |-> 0, data |-> {}] ELSE Undefined
    IN  [k \in DOMAIN store \cup {prop.localStorageKey} |->
            IF k = prop.localStorageKey THEN written ELSE store[k]]

\* emitter.emit('form.FormSubmitEvent', event) with the first upTo properties
\* made: the submit listeners registered on the emitter run in order.  The
\* constructor of FormProperty registers its listener with
\* formSubmitEvent.on(listener), on the emitter defineEvent gave that event;
\* a listener returns at once when its property is not remembered and saves
\* the property otherwise.
RECURSIVE EmitSubmit(_, _, _)
EmitSubmit(store, emitter, upTo) ==
    IF upTo = 0 THEN store
    ELSE LET before == EmitSubmit(store, emitter, upTo - 1)
             prop == formProperties[upTo]
             registeredOn == 0
         IN  IF emitter # registeredOn \/ ~prop.remember THEN before
             ELSE saveToLocalStore(before, prop)

\* setDefaultEmitter(factory), before any form is made: the factory makes a
\* new emitter for every form, or hands events.$defaultEmmitter to all
SetDefaultEmitter(factory) ==
    /\ forms = <<>>
    /\ defaultEmitterFactory # factory
    /\ defaultEmitterFactory' = factory
    /\ UNCHANGED <<forms, formProperties, storage, formCall,
                   registryVars, heapVars, looked, rng, shim, eventVars, linkVars, loggerVars>>

\* new PropertiesForm({formName, title}): $events = defaultEmitterFactory()
NewPropertiesForm ==
    /\ Len(forms) < MaxForms
    /\ forms' = Append(forms,
           [formName |-> Len(forms) + 1,
            events   |-> IF defaultEmitterFactory = "new EventEmitter2"
                         THEN Len(forms) + 1 ELSE 0])
    /\ UNCHANGED <<defaultEmitterFactory, formProperties, storage, formCall,
                   registryVars, heapVars, looked, rng, shim, eventVars, linkVars, loggerVars>>

\* form.newProperty({name, default, remember}): the constructor takes the
\* default, makes the key STORAGE_DEFAULT_PREFIX + fullname, reads the stored
\* value over the default when the property is remembered (undefined when
\* there is none), and registers its submit listener
NewProperty(form, name, default, remember) ==
    /\ form \in DOMAIN forms
    /\ Len(formProperties) < MaxProperties
    /\ \A p \in DOMAIN formProperties :
          formProperties[p].form = form => formProperties[p].name # name
    /\ LET localStorageKey == <<"forms.remember.", forms[form].formName, ".", name>>
           stored == IF localStorageKey \in DOMAIN storage
                     THEN storage[localStorageKey] ELSE Undefined
       IN  formProperties' = Append(formProperties,
               [form |-> form, name |-> name, readonly |-> FALSE,
                remember |-> remember, localStorageKey |-> localStorageKey,
                value |-> IF remember THEN stored ELSE default])
    /\ UNCHANGED <<defaultEmitterFactory, forms, storage, formCall,
                   registryVars, heapVars, looked, rng, shim, eventVars, linkVars, loggerVars>>

\* form.$setReadonly(flag)
SetReadonly(form, flag) ==
    /\ form \in DOMAIN forms
    /\ formProperties' =
           [p \in DOMAIN formProperties |->
               IF formProperties[p].form = form
               THEN [formProperties[p] EXCEPT !.readonly = flag]
               ELSE formProperties[p]]
    /\ formProperties' # formProperties
    /\ UNCHANGED <<defaultEmitterFactory, forms, storage, formCall,
                   registryVars, heapVars, looked, rng, shim, eventVars, linkVars, loggerVars>>

\* a set that ignores the readonly flag
SetReturnsEarlyWritable(prop, value) ==
    LooseEquals(value, prop.value) \/ value = prop.value

\* this.readonly || value == this._value || value === this._value
SetReturnsEarly(prop, value) ==
    prop.readonly \/ LooseEquals(value, prop.value) \/ value = prop.value

\* property.set(value); formCall keeps the call and the events it emitted
\* as history
Set(p, value) ==
    /\ p \in DOMAIN formProperties
    /\ LET prop == formProperties[p]
           called == [op |-> "set", target |-> p, arg |-> value, emitted |-> <<>>]
       IN  IF SetReturnsEarly(prop, value)
           THEN /\ formCall' = called
                /\ UNCHANGED formProperties
           ELSE /\ formProperties' = [formProperties EXCEPT ![p].value = value]
                /\ formCall' = [called EXCEPT !.emitted =
                       <<[NAME |-> "form.FormPropertyChangedEvent",
                          emitter |-> forms[prop.form].events, property |-> p,
                          value |-> value, oldValue |-> prop.value]>>]
    /\ UNCHANGED <<defaultEmitterFactory, forms, storage,
                   registryVars, heapVars, looked, rng, shim, eventVars, linkVars, loggerVars>>

\* form.$submit(): the form has no sub forms; $submitEvent.emit({form}) on the
\* form's emitter runs the submit listeners registered there
Submit(form) ==
    /\ form \in DOMAIN forms
    /\ storage' = EmitSubmit(storage, forms[form].events, Len(formProperties))
    /\ formCall' = [op |-> "$submit", target |-> form, arg |-> Undefined,
                    emitted |-> <<[NAME |-> "form.FormSubmitEvent",
                                   emitter |-> forms[form].events, property |-> 0,
                                   value |-> Undefined, oldValue |-> Undefined]>>]
    /\ UNCHANGED <<defaultEmitterFactory, forms, formProperties,
                   registryVars, heapVars, looked, rng, shim, eventVars, linkVars, loggerVars>>

-----------------------------------------------------------------------------
(* types.ts: Link and LinkMany.  A LinkMany is the sequence of the value    *)
(* fields of its links: undefined (never set), null, or the target object.  *)

\* links in one LinkMany
MaxLinks == 4

\* Link.isLoaded(): this.value ? true : false
LinkIsLoaded(value) == IF Truthy(value) THEN TRUE ELSE FALSE

\* LinkMany.isLoaded(): this.find((link) => !link.isLoaded()) != undefined;
\* find gives the first link the callback accepts, or undefined
LinkManyIsLoaded(links) ==
    LET accepted == {i \in DOMAIN links : ~LinkIsLoaded(links[i])}
        found == IF accepted = {} THEN "undefined" ELSE "link"
    IN  found # "undefined"

\* new LinkMany(links) or push(link): one more link, with or without a value
PushLink(value) ==
    /\ Len(linkMany) < MaxLinks
    /\ linkMany' = Append(linkMany, value)
    /\ UNCHANGED <<isLoadedReturned,
                   registryVars, heapVars, looked, rng, shim, eventVars, formVars, loggerVars>>

\* link.value = target
LoadLink(i) ==
    /\ i \in DOMAIN linkMany
    /\ linkMany[i] # PlainValue
    /\ linkMany' = [linkMany EXCEPT ![i] = PlainValue]
    /\ UNCHANGED <<isLoadedReturned,
                   registryVars, heapVars, looked, rng, shim, eventVars, formVars, loggerVars>>

\* a caller asks linkMany.isLoaded(); the links asked about are history
AskIsLoaded ==
    /\ isLoadedReturned' = [asked |-> TRUE, links |-> linkMany,
                            result |-> LinkManyIsLoaded(linkMany)]
    /\ UNCHANGED <<linkMany,
                   registryVars, heapVars, looked, rng, shim, eventVars, formVars, loggerVars>>

-----------------------------------------------------------------------------
(* logger.ts: LoggerImpl.  A logger is its index in loggers; _level 0 and   *)
(* parent 0 stand for null.  Logger 1 is the factory's rootLogger, made at  *)
(* defaultLogLevel, which is INFO with no APP_LOG_LEVEL in the environment. *)

\* LoggerImpl objects in one run
MaxLoggers == 3

\* enum LogLevel
LogLevel ==
    [TRACE |-> 1, DEBUG |-> 2, INFO |-> 3, WARN |-> 4, ERROR |-> 5, FATAL |-> 6, OFF |-> 7]

\* parseLevel(levelName) of a lower-case name:
\* nameToLevel[levelName] || defaultLogLevel
parseLevel(levelName) ==
    CASE levelName = "trace" -> LogLevel.TRACE
      [] levelName = "debug" -> LogLevel.DEBUG
      [] levelName = "info"  -> LogLevel.INFO
      [] levelName = "warn"  -> LogLevel.WARN
      [] levelName = "error" -> LogLevel.ERROR
      [] levelName = "fatal" -> LogLevel.FATAL
      [] levelName = "off"   -> LogLevel.OFF
      [] OTHER -> LogLevel.INFO

\* get level(): this._level ? this._level : this.parent ? this.parent.level : OFF
RECURSIVE level(_, _)
level(ls, i) ==
    IF ls[i].level # 0 THEN ls[i].level
    ELSE IF ls[i].parent # 0 THEN level(ls, ls[i].parent)
    ELSE LogLevel.OFF

\* isLevelEnabled(l): this.level <= l
isLevelEnabled(ls, i, l) == level(ls, i) <= l

\* isOff(): this.isLevelEnabled(LogLevel.OFF)
isOff(ls, i) == isLevelEnabled(ls, i, LogLevel.OFF)

\* isEnabled(): !this.isOff()
isEnabled(ls, i) == ~isOff(ls, i)

\* logger.level = l with a LogLevel
SetLevel(i, given) ==
    /\ i \in DOMAIN loggers
    /\ loggers' = [loggers EXCEPT ![i].level = given]
    /\ loggers' # loggers
    /\ UNCHANGED <<asked, traced,
                   registryVars, heapVars, looked, rng, shim, eventVars, formVars, linkVars>>

\* logger.level = name with a string: parseLevel(name) is kept
SetLevelByName(i, given) ==
    /\ i \in DOMAIN loggers
    /\ loggers' = [loggers EXCEPT ![i].level = parseLevel(given)]
    /\ loggers' # loggers
    /\ UNCHANGED <<asked, traced,
                   registryVars, heapVars, looked, rng, shim, eventVars, formVars, linkVars>>

\* parent.getLogger(childName): new LoggerImpl(name, null, null, this)
GetLogger(parent) ==
    /\ parent \in DOMAIN loggers
    /\ Len(loggers) < MaxLoggers
    /\ loggers' = Append(loggers, [level |-> 0, parent |-> parent])
    /\ UNCHANGED <<asked, traced,
                   registryVars, heapVars, looked, rng, shim, eventVars, formVars, linkVars>>

\* a caller asks logger i one of isLevelEnabled(l), isOff(), isEnabled()
Ask(i, op, l) ==
    /\ i \in DOMAIN loggers
    /\ op # "isLevelEnabled" => l = LogLevel.OFF
    /\ asked' = [logger |-> i, op |-> op, level |-> l,
                 result |-> CASE op = "isLevelEnabled" -> isLevelEnabled(loggers, i, l)
                              [] op = "isOff" -> isOff(loggers, i)
                              [] op = "isEnabled" -> isEnabled(loggers, i)]
    /\ asked' # asked
    /\ UNCHANGED <<loggers, traced,
                   registryVars, heapVars, looked, rng, shim, eventVars, formVars, linkVars>>

-----------------------------------------------------------------------------
(* safeScrub and the invoker's trace and debug log.  A text is a sequence   *)
(* of characters; a message is the record of its messageName and payload.   *)

\* records the invoker writes in one run
MaxTraced == 2

\* the messages dispatched: a login command with a password in its payload,
\* a command named after a password, and one that holds no password
ScrubMessages ==
    { [messageName |-> <<"L", "o", "g", "i", "n">>,
       payload |-> <<"p", "a", "s", "s", "w", "o", "r", "d", "=", "x">>],
      [messageName |-> <<"S", "e", "t", "P", "a", "s", "s", "w", "o", "r", "d">>,
       payload |-> <<"h", "u", "n", "t", "e", "r">>],
      [messageName |-> <<"P", "i", "n", "g">>, payload |-> <<"h", "i">>] }

\* JSON.stringify(msg), no text holding a character to escape
JsonStringify(msg) ==
    LET JsonString(text) == <<"\"">> \o text \o <<"\"">>
    IN  <<"{">> \o JsonString(<<"m", "e", "s", "s", "a", "g", "e", "N", "a", "m", "e">>)
                \o <<":">> \o JsonString(msg.messageName) \o <<",">>
                \o JsonString(<<"p", "a", "y", "l", "o", "a", "d">>)
                \o <<":">> \o JsonString(msg.payload) \o <<"}">>

\* safeScrubToJsonString(msg): when s.indexOf('assword') != -1, s becomes
\* JSON.stringify({...msg, payload: '***scrubbed***'}); return s
safeScrubToJsonString(msg) ==
    LET s == JsonStringify(msg)
        needle == <<"a", "s", "s", "w", "o", "r", "d">>
        found == \E i \in 1..Len(s) :
                    /\ i + Len(needle) - 1 <= Len(s)
                    /\ SubSeq(s, i, i + Len(needle) - 1) = needle
    IN  IF found
        THEN JsonStringify([msg EXCEPT !.payload =
                 <<"*", "*", "*", "s", "c", "r", "u", "b", "b", "e", "d", "*", "*", "*">>])
        ELSE s

\* safeScrub(msg): s is computed as in safeScrubToJsonString and dropped;
\* return msg
safeScrub(msg) ==
    LET s == safeScrubToJsonString(msg)
    IN  msg

\* invokeHandlerFor writes `Invoking pre handler for ...` with log.trace
\* before a pre-handler and `invoking handler for ...` with log.debug before
\* the handler, both under if (this.log.isTraceEnabled()), both with
\* safeScrub(message) as argument.  The invoker's logger is
\* getLogger('cqrs.api.BaseCqrsApi'), here the first child of the root logger.
LogInvoking(what, message) ==
    /\ 2 \in DOMAIN loggers
    /\ Len(traced) < MaxTraced
    /\ isLevelEnabled(loggers, 2, LogLevel.TRACE)
    /\ traced' = Append(traced,
           [level |-> IF what = "pre handler" THEN LogLevel.TRACE ELSE LogLevel.DEBUG,
            what |-> what, message |-> message, arg |-> safeScrub(message)])
    /\ UNCHANGED <<loggers, asked,
                   registryVars, heapVars, looked, rng, shim, eventVars, formVars, linkVars>>

\* the libraries before any call
LibInit ==
    /\ emitterListeners = [e \in {"this.emitter", "emitter"} |-> <<>>]
    /\ subscriptions = <<>>
    /\ vueHooks = [v \in {"vue1", "vue2"} |-> <<>>]
    /\ lastEmit = [n |-> 0, emitter |-> "this.emitter", invoked |-> <<>>]
    /\ defaultEmitterFactory = "new EventEmitter2"
    /\ forms = <<>>
    /\ formProperties = <<>>
    /\ storage = <<>>
    /\ formCall = [op |-> "none", target |-> 0, arg |-> Undefined, emitted |-> <<>>]
    /\ linkMany = <<>>
    /\ isLoadedReturned = [asked |-> FALSE, links |-> <<>>, result |-> FALSE]
    /\ loggers = <<[level |-> LogLevel.INFO, parent |-> 0]>>
    /\ asked = [logger |-> 0, op |-> "none", level |-> 0, result |-> FALSE]
    /\ traced = <<>>

-----------------------------------------------------------------------------
InitWith(streams) ==
    /\ handlersByMessageName = PlainObject
    /\ noHandlerHandler = "DEFAULT_NO_HANDLER"
    /\ preHandlers = <<>>
    /\ postHandler = "undefined"
    /\ lastRegistered = [n \in Names |-> "undefined"]
    /\ looked = NoLook
    /\ ctxts = <<>>
    /\ bags = <<>>
    /\ frames = <<>>
    /\ nObjs = 0
    /\ rng \in streams
    /\ shim = BaseCqrsApiConstructor
    /\ nUuid = 0
    /\ LibInit

Init == InitWith(UuidStreams)

\* The registry on its own: registrations and queries in any order.
NextRegistry ==
    \/ \E n \in Names, h \in HandlerIds : Register(n, h)
    \/ \E n1, n2 \in Names, h1, h2 \in HandlerIds : RegisterHandlers(n1, h1, n2, h2)
    \/ \E h \in {CustomNoHandler, "undefined"} : SetNoHandlerHandler(h)
    \/ \E n \in Names : QueryHandlerOrDefault(n)
    \/ \E n \in Names : QueryHandler(n)

SpecRegistry == Init /\ [][NextRegistry]_vars

\* names the top-level caller dispatches
TopNames == {"A", "constructor"}

\* One dispatch through the pipeline: the registry is set up, then a top-level
\* caller dispatches one message; pre-handlers, handler and post-handler behave
\* in every way.
Next ==
    \/ \E n \in {"A", "B"} : Register(n, "h1")
    \/ RegisterPreHandler
    \/ SetPostHandler
    \/ \E n \in TopNames : Dispatch(n, {}, PreBehaviours)
    \/ PreHandlerSettled(1, PreBehaviours)
    \/ \E raw \in HandlerEndings("h1"), w \in BOOLEAN : HandlerSettle(1, raw, w)
    \/ HandlerAwaited(1)
    \/ PostSettled(1)

Spec == Init /\ [][Next]_vars

\* names handlers dispatch through ctxt.api
NestedNames == {"A", "B"}

\* property names a caller adds with createContextFor(message, ctxtOpts)
CtxtOptions == {{}, {"user"}}

\* in a call tree, pre-handlers pass the message on, replace it, or fail
TreePreBehaviours ==
    {Behaviour("value", "same"), Behaviour("resolve", "new"),
     Behaviour("reject", "failure")}

TreeEndings ==
    {Raw("resolve", Response("h1")), Raw("reject", Failure("h1")),
     Raw("reject", Undefined)}

\* One call tree: the registry is set up, then a top-level caller dispatches one
\* message on a context it may have added properties to, and the handlers
\* dispatch further messages through their ctxt.api.
NextTree ==
    \/ \E n \in {"A", "B"} : Register(n, "h1")
    \/ RegisterPreHandler
    \/ \E o \in CtxtOptions : Dispatch("A", o, TreePreBehaviours)
    \/ \E f \in 1..MaxFrames : PreHandlerSettled(f, TreePreBehaviours)
    \/ \E f \in 1..MaxFrames, raw \in TreeEndings, w \in BOOLEAN : HandlerSettle(f, raw, w)
    \/ \E f \in 1..MaxFrames, n \in NestedNames :
          HandlerNest(f, "invoke", n, TreePreBehaviours)
    \/ \E f \in 1..MaxFrames : HandlerNestReturn(f)
    \/ \E f \in 1..MaxFrames : HandlerAwaited(f)

SpecTree == Init /\ [][NextTree]_vars

\* through the facades, pre-handlers pass the message on or replace it
FacadePreBehaviours == {Behaviour("resolve", "same"), Behaviour("value", "new")}

FacadeEndings == {Raw("resolve", Response("h1")), Raw("reject", Failure("h1"))}

\* Calls through the facades: the registry is set up, then a top-level caller
\* calls an operation of the API object or of its read-only wrapper, and the
\* handler of that dispatch calls an operation of its ctxt.api.
NextFacade ==
    \/ \E n \in {"A", "B"} : Register(n, "h1")
    \/ RegisterPreHandler
    \/ \E via \in {"api", "readonlyApi"}, op \in Ops : Call(via, op, "A", FacadePreBehaviours)
    \/ \E f \in 1..2 : PreHandlerSettled(f, FacadePreBehaviours)
    \/ \E f \in 1..2, raw \in FacadeEndings : HandlerSettle(f, raw, FALSE)
    \/ \E op \in Ops : HandlerNest(1, op, "B", FacadePreBehaviours)
    \/ HandlerNestReturn(1)
    \/ \E f \in 1..2 : HandlerAwaited(f)
    \/ WrapperSettled(1)

SpecFacade == Init /\ [][NextFacade]_vars

\* Two top-level callers: the registry is set up, then two dispatches run,
\* interleaved at their awaits in every way, and a handler may be registered
\* while a dispatch is suspended in a pre-handler.
InitConcurrent == InitWith({StreamLate, StreamApart})

NextConcurrent ==
    \/ Register("A", "h1")
    \/ RegisterPreHandler
    \/ Dispatch("A", {}, FacadePreBehaviours)
    \/ \E n \in {"A", "B"} : DispatchBeside(n, FacadePreBehaviours)
    \/ \E n \in {"A", "B"} : RegisterWhileSuspended(n, "h2")
    \/ \E f \in 1..2 : PreHandlerSettled(f, FacadePreBehaviours)
    \/ \E f \in 1..2, raw \in FacadeEndings \cup {Raw("resolve", Response("h2"))},
          w \in BOOLEAN : HandlerSettle(f, raw, w)
    \/ \E f \in 1..2 : HandlerAwaited(f)

SpecConcurrent == InitConcurrent /\ [][NextConcurrent]_vars

\* in the runs every call completes in, pre-handlers pass the message on, answer
\* in the handler's stead, or fail
LivePreBehaviours ==
    {Behaviour("resolve", "same"), Behaviour("value", "object"),
     Behaviour("reject", "failure")}

\* One call tree with a post-handler: the registry is set up, then a top-level
\* caller dispatches one message and the handlers dispatch further ones.
NextLive ==
    \/ Register("A", "h1")
    \/ RegisterPreHandler
    \/ SetPostHandler
    \/ Dispatch("A", {}, LivePreBehaviours)
    \/ \E f \in 1..MaxFrames : PreHandlerSettled(f, LivePreBehaviours)
    \/ \E f \in 1..MaxFrames, raw \in FacadeEndings : HandlerSettle(f, raw, FALSE)
    \/ \E f \in 1..MaxFrames : HandlerNest(f, "invoke", "A", LivePreBehaviours)
    \/ \E f \in 1..MaxFrames : HandlerNestReturn(f)
    \/ \E f \in 1..MaxFrames : HandlerAwaited(f)
    \/ \E f \in 1..MaxFrames : PostSettled(f)

\* Every promise a pre-handler, a handler or a post-handler hands back settles,
\* and the event loop runs every continuation that is ready.
EveryCallCompletes ==
    \A f \in 1..MaxFrames :
        /\ WF_vars(PreHandlerSettled(f, LivePreBehaviours))
        /\ WF_vars(\E raw \in FacadeEndings : HandlerSettle(f, raw, FALSE))
        /\ WF_vars(HandlerNestReturn(f))
        /\ WF_vars(HandlerAwaited(f))
        /\ WF_vars(PostSettled(f))

SpecLive == Init /\ [][NextLive]_vars /\ EveryCallCompletes

\* Subscriptions to one event: listeners are subscribed on either emitter,
\* subscriptions are cancelled directly or through a vue component's
\* destruction, and the event is emitted on either emitter.
SpecEvents ==
    InitWith({StreamLate}) /\
    [][\/ \E l \in {"listener1", "listener2"}, e \in {"undefined", "emitter"} :
             Subscribe(l, e)
       \/ \E s \in 1..MaxSubscriptions : Cancel(s)
       \/ \E s \in 1..MaxSubscriptions, v \in {"vue1", "vue2"} : CancelOnDestroy(s, v)
       \/ \E v \in {"vue1", "vue2"} : Destroy(v)
       \/ \E e \in {"undefined", "emitter"} : Emit(e)]_vars

\* Forms: forms and their properties are made, properties are set to
\* undefined, null, '1' and 1, forms are made read-only and submitted.
SpecForms ==
    InitWith({StreamLate}) /\
    [][\/ \E factory \in {"new EventEmitter2", "$defaultEmmitter"} :
             SetDefaultEmitter(factory)
       \/ NewPropertiesForm
       \/ \E f \in 1..MaxForms, n \in {"user", "pin"},
             d \in {Undefined, [t |-> "number", n |-> "", id |-> 1, data |-> {}]},
             r \in BOOLEAN :
             NewProperty(f, n, d, r)
       \/ \E f \in 1..MaxForms, flag \in BOOLEAN : SetReadonly(f, flag)
       \/ \E p \in 1..MaxProperties,
             v \in {Undefined, Null, [t |-> "string", n |-> "1", id |-> 0, data |-> {}],
                    [t |-> "number", n |-> "", id |-> 1, data |-> {}]} : Set(p, v)
       \/ \E f \in 1..MaxForms : Submit(f)]_vars

\* One LinkMany: links are added and loaded, and isLoaded is asked.
SpecLinks ==
    InitWith({StreamLate}) /\
    [][\/ \E v \in {Undefined, Null, PlainValue} : PushLink(v)
       \/ \E i \in 1..MaxLinks : LoadLink(i)
       \/ AskIsLoaded]_vars

\* Loggers: child loggers are made, levels are assigned by number and by
\* name, and the loggers are asked what is enabled.
SpecLogger ==
    InitWith({StreamLate}) /\
    [][\/ \E i \in 1..MaxLoggers : GetLogger(i)
       \/ \E i \in 1..MaxLoggers, l \in 1..7 : SetLevel(i, l)
       \/ \E i \in 1..MaxLoggers, n \in {"trace", "off", "verbose"} : SetLevelByName(i, n)
       \/ \E i \in 1..MaxLoggers, op \in {"isLevelEnabled", "isOff", "isEnabled"},
             l \in 1..7 : Ask(i, op, l)]_vars

\* The invoker's log: the invoker's logger is made, the root level is set,
\* and dispatches reach the two places that log the message.
SpecScrub ==
    InitWith({StreamLate}) /\
    [][\/ GetLogger(1)
       \/ \E l \in {LogLevel.TRACE, LogLevel.DEBUG, LogLevel.INFO} : SetLevel(1, l)
       \/ \E what \in {"pre handler", "handler"}, m \in ScrubMessages :
             LogInvoking(what, m)]_vars

-----------------------------------------------------------------------------
(* Properties *)

Frames == DOMAIN frames

\* the message the dispatch of frame f was entered with
EnteredWith(f) == ctxts[frames[f].ctxt0].message

\* the handler of frame f has been called
HandlerCalled(f) == frames[f].handler # "undefined"

\* the handler of frame f was called and its promise resolved
HandlerResolved(f) ==
    /\ HandlerCalled(f)
    /\ frames[f].handlerRes # NotAwaited
    /\ ~frames[f].handlerRes.thrown

\* the awaited results of pre-handler calls that were falsy values
FalsyResults(f) ==
    {k \in DOMAIN frames[f].preSeen :
        /\ ~frames[f].preSeen[k].thrown
        /\ frames[f].preSeen[k].v.t \in {"undefined", "null"}}

\* facade calls between the top-level dispatch and frame f
RECURSIVE Level(_)
Level(f) == IF frames[f].caller = 0 THEN 0 ELSE 1 + Level(frames[f].caller)

\* replacements made by pre-handlers in the dispatches above frame f
RECURSIVE ReplacementsAbove(_)
ReplacementsAbove(f) ==
    IF frames[f].caller = 0 THEN 0
    ELSE frames[frames[f].caller].nRepl + ReplacementsAbove(frames[f].caller)

\* the root of the parent chain of context c
RECURSIVE RootOf(_)
RootOf(c) == IF ctxts[c].parent = 0 THEN c ELSE RootOf(ctxts[c].parent)

\* contexts built by the factory (the others are createContextFor's copies)
FactoryMade == {c \in DOMAIN ctxts : ctxts[c].api = c}

\* C1: in every dispatch the pre-handlers are called in registration order, one
\* at a time: the k-th call is of the k-th registered pre-handler, at most one
\* call is unsettled at any moment, and the handler is called only once every
\* registered pre-handler has been called and has settled.
C1_PreHandlersSequential ==
    \A f \in Frames :
        /\ \A k \in DOMAIN frames[f].preCalled : frames[f].preCalled[k] = k
        /\ Cardinality(frames[f].running) <= 1
        /\ Len(frames[f].preCalled) - Len(frames[f].preSeen) \in {0, 1}
        /\ HandlerCalled(f) =>
              /\ frames[f].preCalled = preHandlers
              /\ Len(frames[f].preSeen) = Len(preHandlers)

C1_Witness ==
    \E f \in Frames : HandlerCalled(f) /\ Len(frames[f].preCalled) = MaxPre

\* C2: once a pre-handler call has resolved to a falsy value, the dispatch is
\* over: that call is the last pre-handler call, neither the handler nor the
\* post-handler is called, and the dispatch has resolved to undefined.
C2_FalsyHalts ==
    \A f \in Frames : \A k \in FalsyResults(f) :
        /\ k = Len(frames[f].preCalled)
        /\ ~HandlerCalled(f)
        /\ frames[f].postCalls = 0
        /\ frames[f].pc = "done"
        /\ frames[f].outcome = "resolved"
        /\ frames[f].result = Undefined

C2_Witness ==
    \E f \in Frames : \E k \in FalsyResults(f) :
        /\ frames[f].preSeen[k].v = Null
        /\ Len(preHandlers) > k

\* C3: after a pre-handler has replaced the message, the handler called is the
\* one found under the replacement's messageName and its message argument is
\* the replacement, not the message the dispatch was entered with; and with no
\* post-handler the dispatch settles as that handler did.
C3_ReplacementDispatched ==
    \A f \in Frames :
        (HandlerCalled(f) /\ frames[f].nRepl > 0) =>
            LET last == frames[f].preSeen[Len(frames[f].preSeen)].v
            IN  /\ frames[f].handlerMsg = last
                /\ frames[f].handlerMsg # EnteredWith(f)
                /\ frames[f].handler =
                      getHandlerOrDefault(handlersByMessageName, noHandlerHandler, last.n)
                /\ (frames[f].pc = "done" /\ frames[f].postCalls = 0
                    /\ HandlerResolved(f)) =>
                       /\ frames[f].outcome = "resolved"
                       /\ frames[f].result = frames[f].handlerRes.v

\* "A" rewritten to "B" with only a "B" handler registered: its response returned
C3_Witness ==
    \E f \in Frames :
        /\ EnteredWith(f).n = "A"
        /\ frames[f].nRepl = 1
        /\ Registered = {"B"}
        /\ frames[f].handler = lastRegistered["B"]
        /\ frames[f].pc = "done"
        /\ frames[f].result = Response(lastRegistered["B"])

\* C4: with a post-handler set, a dispatch whose handler resolved has called the
\* post-handler, and if the dispatch resolves, it resolves to what the
\* post-handler's promise resolved to.
C4_PostHandlerValue ==
    \A f \in Frames :
        (/\ postHandler # "undefined"
         /\ frames[f].pc \in {"awaitPost", "done"}
         /\ HandlerResolved(f)) =>
            /\ frames[f].postCalls = 1
            /\ frames[f].postArg = frames[f].handlerRes.v
            /\ (frames[f].pc = "done" /\ frames[f].outcome = "resolved") =>
                  /\ frames[f].postRes.kind = "resolve"
                  /\ frames[f].result = frames[f].postRes.v

C4_Witness ==
    \E f \in Frames :
        /\ frames[f].pc = "done"
        /\ frames[f].outcome = "resolved"
        /\ frames[f].postCalls = 1
        /\ HandlerResolved(f)
        /\ frames[f].result # frames[f].handlerRes.v

\* C5 (as claimed): a dispatch that reaches the handler lookup with a message
\* name nobody registered, the baseline default handler in place and no
\* post-handler, ends rejected with the no-such-handler key and the registered
\* names as data.
C5_UnregisteredRejects ==
    \A f \in Frames :
        (/\ HandlerCalled(f)
         /\ lastRegistered[frames[f].handlerMsg.n] = "undefined"
         /\ noHandlerHandler = "DEFAULT_NO_HANDLER"
         /\ postHandler = "undefined"
         /\ frames[f].pc = "done") =>
            /\ frames[f].outcome = "rejected"
            /\ frames[f].result.n = NoSuchHandlerKey
            /\ frames[f].result.data = {n \in Names : lastRegistered[n] # "undefined"}

\* C6 (as claimed): getHandlerOrDefault(name) answers the handler last registered
\* under name, and the configured default handler for a name never registered.
C6_LookupOrDefault ==
    looked.op = "getHandlerOrDefault" =>
        looked.result = IF lastRegistered[looked.name] # "undefined"
                        THEN lastRegistered[looked.name]
                        ELSE noHandlerHandler

\* C7 (as claimed): the context a dispatch at nesting level N is entered with has
\* nestedDepth N and the requestId of the root context.
C7_DepthIsLevel ==
    \A f \in Frames :
        /\ ctxts[frames[f].ctxt0].nestedDepth = Level(f)
        /\ ctxts[frames[f].ctxt0].requestId = ctxts[RootOf(frames[f].ctxt0)].requestId

\* C7 (amended): every context is one deeper than its parent and has its
\* parent's requestId, a root has depth 0; so the context a dispatch at nesting
\* level N is entered with has nestedDepth N plus the number of replacements the
\* pre-handlers of the dispatches above it made, and the root's requestId.
C7_DepthIsLevelPlusReplacements ==
    /\ \A c \in FactoryMade :
          IF ctxts[c].parent = 0
          THEN ctxts[c].nestedDepth = 0
          ELSE /\ ctxts[c].nestedDepth = ctxts[ctxts[c].parent].nestedDepth + 1
               /\ ctxts[c].requestId = ctxts[ctxts[c].parent].requestId
    /\ \A f \in Frames :
          /\ ctxts[frames[f].ctxt0].nestedDepth = Level(f) + ReplacementsAbove(f)
          /\ ctxts[frames[f].ctxt0].requestId = ctxts[RootOf(frames[f].ctxt0)].requestId
          /\ ctxts[frames[f].ctxt0].requestId = ctxts[frames[1].ctxt0].requestId

C7_Witness ==
    \E f \in Frames :
        /\ Level(f) = 1
        /\ ReplacementsAbove(f) = MaxPre
        /\ ctxts[frames[f].ctxt0].nestedDepth = MaxPre + 1
        /\ frames[f].nRepl > 0

\* C8 (as claimed): the contextIds of the contexts the factory built are pairwise
\* distinct.
C8_ContextIdsDistinct ==
    \A c, d \in FactoryMade : c # d => ctxts[c].contextId # ctxts[d].contextId

\* C9: every context with a parent holds its parent's data bag, a context
\* without one holds the bag made for it (of the root), and a key written by the
\* handler of a nested dispatch is in the bag its caller's handler reads once
\* that dispatch has returned.
C9_DataBagShared ==
    /\ \A c \in DOMAIN ctxts :
          /\ ctxts[c].parent # 0 => ctxts[c].data = ctxts[ctxts[c].parent].data
          /\ ctxts[c].data = ctxts[RootOf(c)].data
          /\ ctxts[c].data \in DOMAIN bags
    /\ \A c, d \in FactoryMade :
          (ctxts[c].parent = 0 /\ ctxts[d].parent = 0 /\ c # d) =>
             ctxts[c].data # ctxts[d].data
    /\ \A f \in Frames :
          (frames[f].child # 0 /\ frames[f].hpc = "settled") =>
             LET ch == frames[frames[f].child]
             IN  ch.wrote # 0 => ch.wrote \in frames[f].seen

C9_Witness ==
    \E f \in Frames :
        /\ frames[f].child # 0
        /\ frames[f].hpc = "settled"
        /\ frames[frames[f].child].wrote # 0
        /\ frames[frames[f].child].nRepl > 0
        /\ frames[f].wrote = 0

\* C10 (as claimed): the context of a dispatch a handler makes through ctxt.api
\* has the context the handler received as its parent and carries every
\* property the caller added to that context.
C10_OptionsInherited ==
    \A f \in Frames :
        frames[f].caller # 0 =>
            LET received == frames[frames[f].caller].handlerCtxt
            IN  /\ ctxts[frames[f].ctxt0].parent = received
                /\ ctxts[received].ext \subseteq ctxts[frames[f].ctxt0].ext

\* the pre-handler calls of frame f that handed back a promise
PromiseResults(f) ==
    {k \in DOMAIN frames[f].preKinds : frames[f].preKinds[k] \in {"resolve", "reject"}}

\* C11 (as claimed): once a pre-handler call has handed back a promise, the
\* dispatch is that promise: no later pre-handler, no handler and no
\* post-handler is called, and the dispatch settles as the promise does.
\* (Stated for dispatches of "A", a name with no inherited property.)
C11_PendingBypasses ==
    \A f \in Frames : \A k \in PromiseResults(f) :
        EnteredWith(f).n = "A" =>
        /\ k = Len(frames[f].preCalled)
        /\ ~HandlerCalled(f)
        /\ frames[f].postCalls = 0
        /\ frames[f].pc = "done" =>
              /\ frames[f].result = frames[f].preSeen[k].v
              /\ frames[f].outcome =
                    IF frames[f].preSeen[k].thrown THEN "rejected" ELSE "resolved"

\* the pre-handler calls of frame f that threw or rejected
FailedPreCalls(f) == {k \in DOMAIN frames[f].preSeen : frames[f].preSeen[k].thrown}

\* C12 (as claimed): once a pre-handler call has thrown or rejected, the
\* dispatch is over: that call is the last pre-handler call, neither the handler
\* nor the post-handler is called, and the dispatch has rejected with the value
\* the pre-handler raised.
C12_PreFailureRaised ==
    \A f \in Frames : \A k \in FailedPreCalls(f) :
        /\ k = Len(frames[f].preCalled)
        /\ ~HandlerCalled(f)
        /\ frames[f].postCalls = 0
        /\ frames[f].pc = "done"
        /\ frames[f].outcome = "rejected"
        /\ frames[f].result = frames[f].preSeen[k].v

\* C13 (as claimed): a finished dispatch whose handler threw or rejected, or
\* whose post-handler threw or rejected, has rejected with that failure.
C13_FailureSurfaces ==
    \A f \in Frames :
        frames[f].pc = "done" =>
            /\ (HandlerCalled(f) /\ frames[f].handlerRes.thrown) =>
                  /\ frames[f].outcome = "rejected"
                  /\ frames[f].result = frames[f].handlerRes.v
            /\ frames[f].postRes.kind \in {"throw", "reject"} =>
                  /\ frames[f].outcome = "rejected"
                  /\ frames[f].result = frames[f].postRes.v

C15_OneHandlerPerName ==
    /\ \A n \in Registered : getHandler(handlersByMessageName, n) = lastRegistered[n]
    /\ (looked.op = "getHandler" /\ looked.name \in Registered) =>
          looked.result = lastRegistered[looked.name]
    /\ handlerNames(handlersByMessageName) = Registered
    /\ \A n \in Registered :
          Assign(handlersByMessageName, n, lastRegistered[n]) = handlersByMessageName
    /\ RegisterReturns = "this"

\* contexts the dispatches of frames 1..n asked the factory for: one at entry
\* and one for each replacement
RECURSIVE ContextsAsked(_)
ContextsAsked(n) == IF n = 0 THEN 0 ELSE 1 + frames[n].nRepl + ContextsAsked(n - 1)

\* the frames a top-level call of operation op with a message named name can be
\* suspended or finished in first
EntryFrames(op, name) ==
    Continue(NewFrame(Len(ctxts) + 1, ApiAdapter(op, Message(name, nObjs + 1)), 0),
             nObjs + 2, FacadePreBehaviours)

\* C16: whichever of invoke, get, find and command a dispatch was entered by, on
\* the API object or on ctxt.api, it made one context at entry, for the very
\* message the caller gave and under the caller's context if there is one; and
\* in every state of the registry the four operations start the same pipeline:
\* each leads to the same set of next pipeline states as invoke does.
C16_EntryPointsAlike ==
    /\ \A f \in Frames :
          frames[f].entry.op \in Ops =>
             /\ EnteredWith(f) = frames[f].entry.given
             /\ frames[f].ctxt0 \in FactoryMade
             /\ ctxts[frames[f].ctxt0].parent =
                   IF frames[f].caller = 0 THEN 0
                   ELSE ctxts[frames[frames[f].caller].handlerCtxt].api
    /\ Len(ctxts) = ContextsAsked(Len(frames))
    /\ frames = <<>> =>
          \A op \in Ops, n \in {"A", "B"} : EntryFrames(op, n) = EntryFrames("invoke", n)

\* find on the API object, whose handler called command on its ctxt.api
C16_Witness ==
    \E f \in Frames :
        /\ frames[f].entry = Entry("api", "find", EnteredWith(f), OpCall("find", EnteredWith(f)))
        /\ frames[f].child # 0
        /\ frames[frames[f].child].entry.op = "command"
        /\ frames[frames[f].child].nRepl > 0
        /\ frames[f].pc = "done"
        /\ frames[f].outcome = "resolved"

\* C17: a dispatch entered through the read-only wrapper came from one call of
\* the same operation with the same message on the wrapped API object, and the
\* wrapper's promise settles as that dispatch did: resolved with the same value
\* or rejected with the same failure.
C17_DelegatingPassThrough ==
    \A f \in Frames :
        frames[f].entry.via = "readonlyApi" =>
            /\ frames[f].entry.delegated = OpCall(frames[f].entry.op, frames[f].entry.given)
            /\ EnteredWith(f) = frames[f].entry.given
            /\ frames[f].caller = 0
            /\ frames[f].wrapper # NotAwaited =>
                  /\ frames[f].pc = "done"
                  /\ frames[f].wrapper.thrown = (frames[f].outcome = "rejected")
                  /\ frames[f].wrapper.v = frames[f].result

\* get through the wrapper, rejected with the handler's failure
C17_Witness ==
    \E f \in Frames :
        /\ frames[f].entry.via = "readonlyApi"
        /\ frames[f].entry.op = "get"
        /\ frames[f].handlerRes = Awaited(Raw("reject", Failure("h1")))
        /\ frames[f].wrapper = [thrown |-> TRUE, v |-> Failure("h1")]

\* C18: no step of a dispatch entered through ctxt.api or the read-only wrapper
\* (nor of any other dispatch) changes the handler mapping, the pre-handler
\* list, the post-handler or the default handler.
C18_FacadesKeepRegistry ==
    [][frames' # frames =>
          /\ handlersByMessageName' = handlersByMessageName
          /\ noHandlerHandler' = noHandlerHandler
          /\ preHandlers' = preHandlers
          /\ postHandler' = postHandler]_vars

\* a call through the wrapper whose handler called its ctxt.api has finished,
\* with handlers and pre-handlers registered
C18_Witness ==
    \E f \in Frames :
        /\ frames[f].entry.via = "readonlyApi"
        /\ frames[f].child # 0
        /\ frames[frames[f].child].entry.via = "ctxt.api"
        /\ frames[f].wrapper # NotAwaited
        /\ Registered = {"A", "B"}
        /\ Len(preHandlers) = MaxPre

\* C19 (as claimed): two top-level dispatches, however interleaved, each have a
\* root context of depth 0, and their requestIds differ, their data bags
\* differ, and no bag holds a key written by the other dispatch.
C19_DispatchesApart ==
    \A f, g \in TopFrames :
        f # g =>
            /\ ctxts[frames[f].ctxt0].parent = 0
            /\ ctxts[frames[f].ctxt0].nestedDepth = 0
            /\ ctxts[frames[f].ctxt0].requestId # ctxts[frames[g].ctxt0].requestId
            /\ ctxts[frames[f].ctxt].data # ctxts[frames[g].ctxt].data
            /\ g \notin bags[ctxts[frames[f].ctxt].data]

\* the message the k-th pre-handler call of frame f was made with: the loop
\* goes on only after a call that gave a message
MessageBefore(f, k) == IF k = 1 THEN EnteredWith(f) ELSE frames[f].preSeen[k - 1].v

\* the results of pre-handler calls of frame f that were replacement messages
ReplacementsSeen(f) ==
    {k \in DOMAIN frames[f].preSeen :
        /\ ~frames[f].preSeen[k].thrown
        /\ HasMessageName(frames[f].preSeen[k].v)
        /\ frames[f].preSeen[k].v # MessageBefore(f, k)}

\* C20: the shim's delegate was assigned once, by the constructor, and is the
\* real factory in every state; so every time the pipeline asked the shim for
\* the context of a replacement message it got a context built by the factory
\* for that message, under the context the pipeline held.
C20_ShimBoundOnce ==
    /\ shim = [delegate |-> "DefaultContextFactory", binds |-> 1]
    /\ \A f \in Frames :
          /\ frames[f].nRepl = Cardinality(ReplacementsSeen(f))
          /\ \A k \in ReplacementsSeen(f) :
                \E c \in FactoryMade :
                    /\ ctxts[c].message = frames[f].preSeen[k].v
                    /\ ctxts[c].parent # 0
          /\ frames[f].nRepl > 0 =>
                /\ frames[f].ctxt \in FactoryMade
                /\ ctxts[frames[f].ctxt].message = frames[f].message
                /\ RootOf(frames[f].ctxt) = RootOf(frames[f].ctxt0)

\* a nested dispatch whose pre-handlers all replaced the message has finished
C20_Witness ==
    \E f \in Frames :
        /\ frames[f].caller # 0
        /\ frames[f].nRepl = MaxPre
        /\ frames[frames[f].caller].nRepl = MaxPre
        /\ frames[f].pc = "done"

\* C21: a dispatch moves through its phases in the order pre-handler loop,
\* handler, post-handler, settled, and never back; it is settled exactly when it
\* is resolved or rejected, and stays as it settled; while its handler has not
\* completed it is pending, and so is the dispatch of every handler above it,
\* and it leaves the handler phase only once the handler has completed; and
\* when every call completes, every dispatch started is eventually settled.
C21_DispatchEnds ==
    /\ [][\A f \in DOMAIN frames :
             /\ \/ frames'[f].pc = frames[f].pc
                \/ <<frames[f].pc, frames'[f].pc>> \in
                      {<<"awaitPre", "awaitHandler">>, <<"awaitPre", "done">>,
                       <<"awaitHandler", "awaitPost">>, <<"awaitHandler", "done">>,
                       <<"awaitPost", "done">>}
             /\ frames[f].pc = "done" => frames'[f] = frames[f]
             /\ (frames[f].pc = "awaitHandler" /\ frames'[f].pc # "awaitHandler") =>
                   frames[f].hpc = "settled"]_vars
    /\ [](\A f \in DOMAIN frames :
             /\ (frames[f].pc = "done") = (frames[f].outcome \in {"resolved", "rejected"})
             /\ frames[f].outcome \in {"pending", "resolved", "rejected"}
             /\ frames[f].hpc \in {"running", "nested"} => frames[f].outcome = "pending"
             /\ (frames[f].outcome = "pending" /\ frames[f].caller # 0) =>
                   frames[frames[f].caller].outcome = "pending")
    /\ \A f \in 1..MaxFrames :
          (f \in DOMAIN frames) ~> (f \in DOMAIN frames /\ frames[f].pc = "done")

\* a dispatch that went through every phase has settled, and so has the
\* dispatch of the handler that made it
C21_Witness ==
    \E f \in Frames :
        /\ frames[f].caller # 0
        /\ Len(frames[f].preCalled) = MaxPre
        /\ frames[f].postCalls = 1
        /\ frames[f].pc = "done"
        /\ frames[frames[f].caller].pc = "done"
        /\ frames[frames[f].caller].postCalls = 1

\* the awaited results of pre-handler calls of frame f that were truthy values
\* without a messageName
NonMessageResults(f) ==
    {k \in DOMAIN frames[f].preSeen :
        /\ ~frames[f].preSeen[k].thrown
        /\ Truthy(frames[f].preSeen[k].v)
        /\ ~HasMessageName(frames[f].preSeen[k].v)}

\* C22: once a pre-handler call has resolved to a truthy value without a
\* messageName, the dispatch is over: that call is the last pre-handler call,
\* neither the handler nor the post-handler is called, and the dispatch has
\* resolved to exactly that value.
C22_NonMessageReturned ==
    \A f \in Frames : \A k \in NonMessageResults(f) :
        /\ k = Len(frames[f].preCalled)
        /\ ~HandlerCalled(f)
        /\ frames[f].postCalls = 0
        /\ frames[f].pc = "done"
        /\ frames[f].outcome = "resolved"
        /\ frames[f].result = frames[f].preSeen[k].v

\* the first of two pre-handlers resolved to a plain object, with a handler and
\* a post-handler in place
C22_Witness ==
    \E f \in Frames : \E k \in NonMessageResults(f) :
        /\ k = 1
        /\ frames[f].preKinds[k] = "resolve"
        /\ Len(preHandlers) = MaxPre
        /\ postHandler # "undefined"
        /\ lastRegistered[EnteredWith(f).n] # "undefined"
        /\ frames[f].result = PlainValue

\* the context the pipeline of frame f held once its k-th pre-handler call had
\* been dealt with: the one passed to the next call made, or the one it holds
ContextAfter(f, k) ==
    IF k < Len(frames[f].preArgs) THEN frames[f].preArgs[k + 1][2]
    ELSE IF HandlerCalled(f) THEN frames[f].handlerCtxt
    ELSE frames[f].ctxt

\* C23: when a pre-handler call gave a replacement message, the pipeline holds
\* a new context built by the factory, whose message is the replacement and
\* whose parent is the context that call was made with; and until a later
\* pre-handler replaces the message again, every later pre-handler call, the
\* handler call and the post-handler call are made with the replacement and
\* that context.
C23_ReplacementContext ==
    \A f \in Frames : \A k \in ReplacementsSeen(f) :
        LET r == frames[f].preSeen[k].v
            c == ContextAfter(f, k)
            latest(j) == ~\E m \in ReplacementsSeen(f) : k < m /\ m < j
        IN  /\ c \in FactoryMade
            /\ c # frames[f].preArgs[k][2]
            /\ ctxts[c].message = r
            /\ ctxts[c].parent = frames[f].preArgs[k][2]
            /\ \A j \in DOMAIN frames[f].preArgs :
                  (j > k /\ latest(j)) => frames[f].preArgs[j] = <<r, c>>
            /\ latest(Len(frames[f].preSeen) + 1) =>
                  /\ HandlerCalled(f) =>
                        /\ frames[f].handlerMsg = r
                        /\ frames[f].handlerCtxt = c
                  /\ frames[f].postCalls > 0 =>
                        /\ frames[f].postMsg = r
                        /\ frames[f].postCtxt = c

\* the first pre-handler replaced the message, the second passed it on, and
\* the handler and the post-handler were called
C23_Witness ==
    \E f \in Frames :
        /\ ReplacementsSeen(f) = {1}
        /\ Len(frames[f].preArgs) = 2
        /\ frames[f].postCalls = 1
        /\ frames[f].postMsg.n = "B"
        /\ frames[f].pc = "done"

\* the pre-handler calls of frame f that gave back the very message they were
\* made with
SameResults(f) ==
    {k \in DOMAIN frames[f].preSeen :
        /\ ~frames[f].preSeen[k].thrown
        /\ frames[f].preSeen[k].v = frames[f].preArgs[k][1]}

\* C24: a pre-handler call that gave back the very message it was made with
\* changes nothing: no context is built for it (the contexts built are one per
\* dispatch and one per replacement), the pipeline goes on with the same message
\* and context, and it goes on with the next pre-handler, or with the handler
\* when that call was the last.
C24_SameMessageNoOp ==
    /\ Len(ctxts) = ContextsAsked(Len(frames))
    /\ \A f \in Frames :
          /\ frames[f].nRepl = Cardinality(ReplacementsSeen(f))
          /\ SameResults(f) \cap ReplacementsSeen(f) = {}
          /\ \A k \in SameResults(f) :
                /\ ContextAfter(f, k) = frames[f].preArgs[k][2]
                /\ IF k < Len(preHandlers)
                   THEN /\ Len(frames[f].preCalled) > k
                        /\ frames[f].preCalled[k + 1] = k + 1
                        /\ frames[f].preArgs[k + 1] = frames[f].preArgs[k]
                   ELSE /\ HandlerCalled(f)
                        /\ frames[f].handlerMsg = frames[f].preArgs[k][1]
                        /\ frames[f].handlerCtxt = frames[f].preArgs[k][2]

\* both pre-handlers gave the message back, one of them through a promise, and
\* the handler was called with the message and the context of the dispatch
C24_Witness ==
    \E f \in Frames :
        /\ SameResults(f) = {1, 2}
        /\ "resolve" \in {frames[f].preKinds[1], frames[f].preKinds[2]}
        /\ HandlerCalled(f)
        /\ frames[f].handlerCtxt = frames[f].ctxt0
        /\ Len(ctxts) = 1

\* newId of every uuid of the pool
PoolIds == [k \in DOMAIN UuidPool |-> newId(UuidPool[k])]

\* C25: every context the factory built from a parent (for a call a handler
\* made through ctxt.api, from the facade's context; for a replacement, from the
\* context the pipeline held) holds the computed fields and not what the spread
\* of the parent brought: its parent is that parent itself and not the parent's
\* parent, its api is the facade bound to itself and not the parent's, its
\* nestedDepth is one more than the parent's, its requestId and data are those
\* the factory reads off the parent, its log is the logger named after its own
\* message and requestId, its contextId is an id newly drawn, and its message
\* is the message the factory was given.
C25_ComputedFieldsWin ==
    LET nested == {<<frames[f].ctxt0,
                     ctxts[frames[frames[f].caller].handlerCtxt].api,
                     frames[f].entry.given>> : f \in {g \in Frames : frames[g].caller # 0}}
        replaced(f) == {<<ContextAfter(f, k), frames[f].preArgs[k][2],
                          frames[f].preSeen[k].v>> : k \in ReplacementsSeen(f)}
    IN  \A call \in nested \cup UNION {replaced(f) : f \in Frames} :
            LET c == call[1]
                p == ctxts[call[2]]
            IN  /\ ctxts[c].parent = call[2]
                /\ ctxts[c].parent # p.parent
                /\ ctxts[c].api = c
                /\ ctxts[c].api # p.api
                /\ ctxts[c].nestedDepth = p.nestedDepth + 1
                /\ ctxts[c].requestId = p.requestId
                /\ ctxts[c].data = p.data
                /\ ctxts[c].message = call[3]
                /\ ctxts[c].log = <<call[3].n, p.requestId>>
                /\ \E k \in 1..nUuid : ctxts[c].contextId = PoolIds[rng[k]]

\* a context built for a replacement from a parent that is the caller's copy
\* with an added property (whose api is bound to another context), and a
\* context built for a nested call under it
C25_Witness ==
    \E c, d \in DOMAIN ctxts :
        /\ ctxts[c].parent # 0
        /\ ctxts[ctxts[c].parent].api # ctxts[c].parent
        /\ ctxts[c].ext = {"user"}
        /\ ctxts[c].message # ctxts[ctxts[c].parent].message
        /\ ctxts[d].parent = c
        /\ \E f \in Frames : frames[f].ctxt0 = d

\* C26 (as claimed): a finished dispatch whose post-handler threw, or handed
\* back a promise that rejected, has rejected with that failure, and the outer
\* catch has logged it.
C26_PostFailureLogged ==
    \A f \in Frames :
        (frames[f].pc = "done" /\ frames[f].postRes.kind \in {"throw", "reject"}) =>
            /\ frames[f].outcome = "rejected"
            /\ frames[f].result = frames[f].postRes.v
            /\ frames[f].warned # <<>>
            /\ frames[f].warned[1].cause = frames[f].postRes.v

\* C27 (as claimed): the record the outer catch logs when the handler or the
\* post-handler failed names the message the dispatch was handling and the
\* contextId of the context it was running in.
C27_FailureLogNamesContext ==
    \A f \in Frames :
        (/\ frames[f].warned # <<>>
         /\ \/ HandlerCalled(f) /\ frames[f].handlerRes.thrown
            \/ frames[f].postRes.kind \in {"throw", "reject"}) =>
            LET record == frames[f].warned[1]
            IN  /\ record.messageName = frames[f].handlerMsg.n
                /\ "contextId" \in DOMAIN record
                /\ record["contextId"] = ctxts[frames[f].handlerCtxt].contextId

C29_LookupAfterLoop ==
    [][/\ \A f \in DOMAIN frames' :
             ((f \notin DOMAIN frames \/ frames[f].handler = "undefined")
              /\ frames'[f].handler # "undefined") =>
                 /\ frames'[f].handler =
                       getHandlerOrDefault(handlersByMessageName, noHandlerHandler,
                                           frames'[f].handlerMsg.n)
                 /\ lastRegistered[frames'[f].handlerMsg.n] # "undefined" =>
                       frames'[f].handler = lastRegistered[frames'[f].handlerMsg.n]
                 /\ Len(frames'[f].preSeen) = Len(preHandlers)
       /\ lastRegistered' # lastRegistered => frames' = frames]_vars

\* a dispatch of "A" started with h1 registered, h2 was registered while it was
\* suspended in a pre-handler, and it called h2
C29_Witness ==
    \E f \in Frames :
        /\ EnteredWith(f).n = "A"
        /\ frames[f].found0 = "h1"
        /\ frames[f].nRepl = 0
        /\ frames[f].handler = "h2"
        /\ frames[f].pc = "done"
        /\ frames[f].result = Response("h2")

\* C30: a dispatch that called the post-handler had its handler called and
\* resolved, after every pre-handler had passed a message on; a dispatch
\* whose handler threw or rejected, or in which a pre-handler call failed,
\* resolved to nothing or resolved to a value that is no message, has not
\* called the post-handler.
C30_PostOnlyAfterSuccess ==
    \A f \in Frames :
        /\ frames[f].postCalls > 0 =>
              /\ HandlerResolved(f)
              /\ Len(frames[f].preSeen) = Len(preHandlers)
              /\ \A k \in DOMAIN frames[f].preSeen :
                    /\ ~frames[f].preSeen[k].thrown
                    /\ HasMessageName(frames[f].preSeen[k].v)
        /\ (HandlerCalled(f) /\ frames[f].handlerRes.thrown) => frames[f].postCalls = 0
        /\ (FailedPreCalls(f) \cup FalsyResults(f) \cup NonMessageResults(f)) # {} =>
              frames[f].postCalls = 0

\* with a post-handler set, a dispatch whose handler rejected has ended
\* without calling it
C30_Witness ==
    \E f \in Frames :
        /\ postHandler # "undefined"
        /\ frames[f].handlerRes = Awaited(Raw("reject", Failure("h1")))
        /\ Len(frames[f].preSeen) = MaxPre
        /\ frames[f].pc = "done"
        /\ frames[f].postCalls = 0

\* C31: the context passed to the handler of a dispatch is as many levels
\* deeper than the context the dispatch was entered with as pre-handler calls
\* gave back a message object other than the one they were made with, whatever
\* its name; it has the requestId and the data bag of the context entered with.
C31_ReplacementByIdentity ==
    \A f \in Frames :
        HandlerCalled(f) =>
            LET k == Cardinality({j \in DOMAIN frames[f].preSeen :
                                     /\ ~frames[f].preSeen[j].thrown
                                     /\ frames[f].preSeen[j].v # frames[f].preArgs[j][1]})
            IN  /\ ctxts[frames[f].handlerCtxt].nestedDepth =
                      ctxts[frames[f].ctxt0].nestedDepth + k
                /\ frames[f].nRepl = k
                /\ ctxts[frames[f].handlerCtxt].requestId = ctxts[frames[f].ctxt0].requestId
                /\ ctxts[frames[f].handlerCtxt].data = ctxts[frames[f].ctxt0].data

\* a dispatch entered at depth 1 with a message named "B", whose two
\* pre-handlers each gave back another message object named "B": its handler
\* got a context of depth 3
C31_Witness ==
    \E f \in Frames :
        /\ HandlerCalled(f)
        /\ ctxts[frames[f].ctxt0].nestedDepth = 1
        /\ EnteredWith(f).n = "B"
        /\ Len(frames[f].preSeen) = 2
        /\ \A j \in 1..2 : /\ frames[f].preSeen[j].v.n = "B"
                           /\ frames[f].preSeen[j].v # frames[f].preArgs[j][1]
        /\ ctxts[frames[f].handlerCtxt].nestedDepth = 3

\* C32 (as claimed): a dispatch in which a pre-handler call threw or rejected
\* has rejected, and has logged the failure twice: one error record from the
\* pre-handler loop, carrying the pre-handler's source and its doc string if it
\* has one, and one warn record from the outer catch; whether the doc string
\* is there or not.
C32_PreFailureLoggedTwice ==
    \A f \in Frames : \A k \in FailedPreCalls(f) :
        /\ frames[f].pc = "done"
        /\ frames[f].outcome = "rejected"
        /\ Len(frames[f].errored) = 1
        /\ frames[f].errored[1].cause = frames[f].preSeen[k].v
        /\ frames[f].errored[1].handler = PreHandlerSource(frames[f].preCalled[k])
        /\ frames[f].errored[1].handlerDocs.defined = (frames[f].preCalled[k] = 1)
        /\ Len(frames[f].warned) = 1
        /\ frames[f].warned[1].cause = frames[f].preSeen[k].v

\* C33 (as claimed): a listener an emit invokes on an emitter has a
\* subscription on that emitter that was not cancelled before the emit: once
\* cancel() has returned, no later emit on the emitter the listener was
\* subscribed to, this.emitter or the one passed to subscribe, invokes it for
\* that subscription.
C33_CancelledNotInvoked ==
    [][lastEmit'.n # lastEmit.n =>
          \A k \in DOMAIN lastEmit'.invoked :
              \E s \in DOMAIN subscriptions :
                  /\ subscriptions[s].listener = lastEmit'.invoked[k]
                  /\ subscriptions[s].subscribedOn = lastEmit'.emitter
                  /\ ~subscriptions[s].cancelled]_vars

\* C34: over cancel(), cancelOnDestroy() and component destructions in any
\* order, a subscription calls eventDef.off at most once, and exactly once
\* when it is cancelled; it registers at most one destroy hook; and cancelled
\* never goes back from true to false.
C34_CancelOnceForGood ==
    /\ [](\A s \in DOMAIN subscriptions :
             /\ subscriptions[s].offCalls <= 1
             /\ subscriptions[s].cancelled <=> subscriptions[s].offCalls = 1
             /\ subscriptions[s].hooks <= 1
             /\ subscriptions[s].registeredWithVue <=> subscriptions[s].hooks = 1)
    /\ [][\A s \in DOMAIN subscriptions :
             subscriptions[s].cancelled => subscriptions'[s].cancelled]_vars

\* a subscription cancelled after its destroy hook was registered, the hook
\* having run: cancel() was reached both by a caller or by the hook, and the
\* listener was taken off once
C34_Witness ==
    \E s \in DOMAIN subscriptions :
        /\ subscriptions[s].cancelled
        /\ subscriptions[s].offCalls = 1
        /\ subscriptions[s].hooks = 1
        /\ \A v \in {"vue1", "vue2"} : vueHooks[v] = <<>>
        /\ emitterListeners["this.emitter"] = <<>>

\* C35 (as claimed): a step that submits a form through $submit() leaves, for
\* every property of that form made with remember = true, the property's
\* current value (as text; undefined when it has none) in the storage
\* provider under the property's localStorageKey, and writes nothing under
\* the key of a property of that form made with remember = false.
C35_SubmitRemembers ==
    [][formCall' # formCall /\ formCall'.op = "$submit" =>
          \A p \in DOMAIN formProperties :
              LET prop == formProperties[p]
                  key == prop.localStorageKey
              IN  prop.form = formCall'.target =>
                      IF prop.remember
                      THEN /\ key \in DOMAIN storage'
                           /\ storage'[key] =
                                  IF prop.value.t \in {"undefined", "null"} THEN Undefined
                                  ELSE [t |-> "string", n |-> "1", id |-> 0, data |-> {}]
                      ELSE /\ key \in DOMAIN storage' <=> key \in DOMAIN storage
                           /\ key \in DOMAIN storage => storage'[key] = storage[key]]_vars

\* C36: a step that calls property.set(value) leaves every property as it
\* was and emits nothing when the property is readonly or the value equals
\* (==) the property's value; otherwise it stores the value in that property
\* alone and emits exactly one event, form.FormPropertyChangedEvent on the
\* emitter of the owning form, with the value before as oldValue and the
\* value given as value.  Nothing else changes either way.
C36_SetStoresAndEmitsOnce ==
    [][formCall' # formCall /\ formCall'.op = "set" =>
          LET p == formCall'.target
              value == formCall'.arg
              prop == formProperties[p]
          IN  /\ forms' = forms /\ storage' = storage
              /\ IF prop.readonly \/ LooseEquals(value, prop.value)
                 THEN /\ formProperties' = formProperties
                      /\ formCall'.emitted = <<>>
                 ELSE /\ formProperties' = [formProperties EXCEPT ![p].value = value]
                      /\ formCall'.emitted =
                            <<[NAME |-> "form.FormPropertyChangedEvent",
                               emitter |-> forms[prop.form].events, property |-> p,
                               value |-> value, oldValue |-> prop.value]>>]_vars

\* a property of a form with an emitter of its own was set from 1 to
\* undefined: one event went out on that emitter
C36_Witness ==
    /\ formCall.op = "set"
    /\ Len(formCall.emitted) = 1
    /\ formCall.emitted[1].oldValue.t = "number"
    /\ formCall.emitted[1].value = Undefined
    /\ formCall.emitted[1].emitter # 0
    /\ formProperties[formCall.target].value = Undefined

\* C37 (as claimed): what LinkMany.isLoaded() returned is true exactly when
\* every link of the collection asked about is loaded (has a value), and
\* false when at least one link is not.
C37_LoadedWhenAllLoaded ==
    isLoadedReturned.asked =>
        (isLoadedReturned.result <=>
            \A i \in DOMAIN isLoadedReturned.links :
                isLoadedReturned.links[i] = PlainValue)

\* C38 (as claimed): whatever a logger is asked, its answer follows from its
\* effective level, its own level or else that of the nearest ancestor that
\* has one: isLevelEnabled(l) is true exactly when the effective level is at
\* most l, isOff() exactly when it is OFF, isEnabled() exactly when it is not
\* OFF.
C38_AnswersFollowLevel ==
    [][asked' # asked =>
          LET effective == level(loggers, asked'.logger)
          IN  asked'.result =
                  CASE asked'.op = "isLevelEnabled" -> effective <= asked'.level
                    [] asked'.op = "isOff" -> effective = LogLevel.OFF
                    [] asked'.op = "isEnabled" -> effective # LogLevel.OFF]_vars

\* C39 (as claimed): every record the invoker hands to its trace or debug log
\* for a message whose JSON form contains "assword" carries a value whose
\* payload is '***scrubbed***', as the text safeScrubToJsonString gives does,
\* and not the message's own payload.
C39_LoggedMessageScrubbed ==
    \A k \in DOMAIN traced :
        LET message == traced[k].message
        IN  safeScrubToJsonString(message) # JsonStringify(message) =>
                /\ JsonStringify(traced[k].arg) = safeScrubToJsonString(message)
                /\ traced[k].arg.payload # message.payload

====
